---------------------------- MODULE Spec2Model ----------------------------
(***************************************************************************)
(* A model of epsteinlib: the Ewald dispatcher epsteinZetaInternal, its    *)
(* four public entry points, the cell projection vectorProj, the linear    *)
(* algebra helper invert, and the static tables of gamma.c under           *)
(* concurrent calls.                                                       *)
(*                                                                         *)
(* Variables:                                                              *)
(*   inv   a run of invert (SpecInvert)                                    *)
(*   proj  a call of vectorProj (SpecProj)                                 *)
(*   zeta  a call of an entry point and of epsteinZetaInternal (Spec)      *)
(*   thr   the static tables and the threads that read them (SpecThreads)  *)
(*   loop  two passes of a summation loop of zeta.c (SpecLoops)             *)
(*   cut   the choice of the summation cutoffs (SpecCutoffs)               *)
(*   gam   a call of egf_ugamma or egf_gammaStar (SpecGamma)               *)
(*   ker   a call of a function of crandall.c (SpecKernel)                 *)
(*                                                                         *)
(* A C double is modelled as an exact rational with a decimal exponent,    *)
(* <<n, d, k>> = (n / d) * 10^(-k), plus the IEEE special values:          *)
(*   <<0, 1, 0>> zero, <<1, 0, 0>> +inf, <<-1, 0, 0>> -inf, <<0, 0, 0>> NaN *)
(* Rounding is not modelled, except that a sum of two numbers that are     *)
(* more than AbsorbGap decimal orders apart is the larger one, as it is in *)
(* binary64.  Zeros are unsigned.                                          *)
(***************************************************************************)
EXTENDS Integers, Sequences, FiniteSets, TLC

VARIABLES inv, proj, zeta, thr, loop, cut, gam, ker

vars == <<inv, proj, zeta, thr, loop, cut, gam, ker>>

-----------------------------------------------------------------------------
(* Integer helpers *)

Sgn(n) == IF n > 0 THEN 1 ELSE IF n < 0 THEN -1 ELSE 0

AbsInt(n) == IF n < 0 THEN -n ELSE n

RECURSIVE GCD(_, _)
GCD(a, b) == IF b = 0 THEN a ELSE GCD(b, a % b)

RECURSIVE Pow10(_)
Pow10(e) == IF e = 0 THEN 1 ELSE 10 * Pow10(e - 1)

\* F applied to the value of e, with e evaluated once (a C local variable)
Bind(e, F(_)) == CHOOSE y \in {F(v) : v \in {e}} : TRUE

-----------------------------------------------------------------------------
(* binary64 values *)

\* two finite non-zero doubles this many decimal orders apart: the smaller is
\* lost in their sum (binary64 carries 15 to 17 significant decimal digits)
AbsorbGap == 20

DZero == <<0, 1, 0>>
DOne == <<1, 1, 0>>
DNaN == <<0, 0, 0>>
DInf == <<1, 0, 0>>

Norm(n, d, k) ==
    IF d = 0 THEN <<Sgn(n), 0, 0>>
    ELSE IF n = 0 THEN DZero
    ELSE LET g == GCD(AbsInt(n), AbsInt(d))
         IN  <<Sgn(d) * (n \div g), AbsInt(d) \div g, k>>

DInt(n) == <<n, 1, 0>>
DRat(n, d) == Norm(n, d, 0)
\* (n / d) * 10^(-k)
DSci(n, d, k) == Norm(n, d, k)

IsNaN(a) == a[1] = 0 /\ a[2] = 0
IsInf(a) == a[1] # 0 /\ a[2] = 0
IsFinite(a) == a[2] # 0
IsZero(a) == a[1] = 0 /\ a[2] # 0

DNeg(a) == <<-a[1], a[2], a[3]>>
DAbs(a) == <<AbsInt(a[1]), a[2], a[3]>>

DMul(a, b) ==
    IF a[2] = 0 \/ b[2] = 0 THEN <<Sgn(a[1]) * Sgn(b[1]), 0, 0>>
    ELSE LET g1 == GCD(AbsInt(a[1]), b[2])
             g2 == GCD(AbsInt(b[1]), a[2])
             h1 == IF g1 = 0 THEN 1 ELSE g1
             h2 == IF g2 = 0 THEN 1 ELSE g2
         IN  Norm((a[1] \div h1) * (b[1] \div h2),
                  (a[2] \div h2) * (b[2] \div h1), a[3] + b[3])

\* 1 / a; 1 / 0 = +inf (zeros are unsigned), 1 / inf = 0
DInv(a) ==
    IF IsNaN(a) THEN DNaN
    ELSE IF IsInf(a) THEN DZero
    ELSE IF IsZero(a) THEN DInf
    ELSE <<Sgn(a[1]) * a[2], AbsInt(a[1]), -a[3]>>

DDiv(a, b) == DMul(a, DInv(b))

DAdd(a, b) ==
    IF IsNaN(a) \/ IsNaN(b) THEN DNaN
    ELSE IF IsInf(a) THEN (IF IsInf(b) /\ b[1] # a[1] THEN DNaN ELSE a)
    ELSE IF IsInf(b) THEN b
    ELSE IF IsZero(a) THEN b
    ELSE IF IsZero(b) THEN a
    ELSE IF a[3] = b[3]
         THEN Norm(a[1] * b[2] + b[1] * a[2], a[2] * b[2], a[3])
    ELSE IF a[3] + AbsorbGap <= b[3] THEN a
    ELSE IF b[3] + AbsorbGap <= a[3] THEN b
    ELSE IF a[3] < b[3]
         THEN Norm(a[1] * Pow10(b[3] - a[3]) * b[2] + b[1] * a[2],
                   a[2] * b[2], b[3])
         ELSE Norm(a[1] * b[2] + b[1] * Pow10(a[3] - b[3]) * a[2],
                   a[2] * b[2], a[3])

DSub(a, b) == DAdd(a, DNeg(b))

\* the sign of a - b for two numbers that are not NaN
Cmp(a, b) ==
    IF IsInf(a) THEN (IF IsInf(b) /\ b[1] = a[1] THEN 0 ELSE a[1])
    ELSE IF IsInf(b) THEN -b[1]
    ELSE Sgn(DSub(a, b)[1])

\* the C comparisons: every comparison with a NaN is false
DLt(a, b) == ~IsNaN(a) /\ ~IsNaN(b) /\ Cmp(a, b) < 0
DLe(a, b) == ~IsNaN(a) /\ ~IsNaN(b) /\ Cmp(a, b) <= 0
DGt(a, b) == DLt(b, a)
DGe(a, b) == DLe(b, a)
DEq(a, b) == ~IsNaN(a) /\ ~IsNaN(b) /\ Cmp(a, b) = 0

-----------------------------------------------------------------------------
(* invert: src/C/src/tools.c.  A matrix is a flat row-major array, a       *)
(* function on 0 .. dim * dim - 1, as in the C code.                       *)

\* the column pivot search of step i: the index r the inner loop ends with
RECURSIVE PivotSearch(_, _, _, _, _)
PivotSearch(dim, m, i, j, r) ==
    IF j >= dim THEN r
    ELSE IF DGt(DAbs(m[i * dim + j]), DAbs(m[i * dim + r]))
         THEN PivotSearch(dim, m, i, j + 1, j)
         ELSE PivotSearch(dim, m, i, j + 1, r)

\* "if (i != r)": exchange p[i] and p[r]
SwapPerm(p, i, r) ==
    IF i # r THEN [p EXCEPT ![i] = p[r], ![r] = p[i]] ELSE p

\* "permute accordingly": exchange rows i and r of m
SwapRows(dim, m, i, r) ==
    [idx \in DOMAIN m |->
        LET row == idx \div dim
            col == idx % dim
        IN  IF row = i THEN m[r * dim + col]
            ELSE IF row = r THEN m[i * dim + col]
            ELSE m[idx]]

\* "standard LU-decomposition": the rows k > i of step i
Eliminate(dim, m, i) ==
    [idx \in DOMAIN m |->
        LET k == idx \div dim
            j == idx % dim
            l == DDiv(m[k * dim + i], m[i * dim + i])
        IN  IF k > i /\ j = i THEN l
            ELSE IF k > i /\ j > i
                 THEN DSub(m[idx], DMul(l, m[i * dim + j]))
            ELSE m[idx]]

\* one pass of the loop "for (int i = 0; i < dim; i++)" (lines 109-135)
LUStep(dim, m, p, i) ==
    Bind(PivotSearch(dim, m, i, i + 1, i), LAMBDA r :
    Bind(SwapRows(dim, m, i, r), LAMBDA ms :
        [m |-> Eliminate(dim, ms, i), p |-> SwapPerm(p, i, r), r |-> r,
         pivot |-> ms[i * dim + i], best |-> m[i * dim + r]]))

\* "Solve Ly=e_p[i]": y[k] for k > p[i], accumulated as the loop does
RECURSIVE ForwardAcc(_, _, _, _, _, _)
ForwardAcc(dim, m, y, k, j, acc) ==
    IF j >= k THEN acc
    ELSE ForwardAcc(dim, m, y, k, j + 1,
                    DSub(acc, DMul(m[k * dim + j], y[j])))

RECURSIVE ForwardSolve(_, _, _, _, _)
ForwardSolve(dim, m, pi, k, y) ==
    IF k >= dim THEN y
    ELSE ForwardSolve(dim, m, pi, k + 1,
                      [y EXCEPT ![k] = ForwardAcc(dim, m, y, k, pi, DZero)])

\* "Solve Rx=y": column i of r, for j = dim - 1 down to 0
RECURSIVE BackAcc(_, _, _, _, _, _, _)
BackAcc(dim, m, r, i, j, k, acc) ==
    IF k >= dim THEN acc
    ELSE BackAcc(dim, m, r, i, j, k + 1,
                 DSub(acc, DMul(m[j * dim + k], r[k * dim + i])))

RECURSIVE BackSolve(_, _, _, _, _, _)
BackSolve(dim, m, y, r, i, j) ==
    IF j < 0 THEN r
    ELSE BackSolve(dim, m, y,
                   [r EXCEPT ![j * dim + i] =
                       DDiv(BackAcc(dim, m, r, i, j, j + 1, y[j]),
                            m[j * dim + j])],
                   i, j - 1)

\* one pass of the loop "for (int i = 0; i < dim; i++)" (lines 138-158)
SolveColumn(dim, m, p, r, i) ==
    Bind([j \in 0 .. dim - 1 |-> IF j = p[i] THEN DOne ELSE DZero], LAMBDA y0 :
    Bind(ForwardSolve(dim, m, p[i], p[i] + 1, y0), LAMBDA y :
        BackSolve(dim, m, y, r, i, dim - 1)))


\* whether the passes so far divide by a pivot that is exactly zero: the
\* l-value of step i (line 130, only when a row k > i exists) and the back
\* substitution (line 156)
LUDividesByZero(dim, pivot, i) == i + 1 < dim /\ IsZero(pivot)

SolveDividesByZero(dim, m) == \E j \in 0 .. dim - 1 : IsZero(m[j * dim + j])

\* the whole of invert: the outputs m (overwritten), p and r
RECURSIVE LUAll(_, _, _, _)
LUAll(dim, m, p, i) ==
    IF i >= dim THEN [m |-> m, p |-> p]
    ELSE Bind(LUStep(dim, m, p, i), LAMBDA s : LUAll(dim, s.m, s.p, i + 1))

RECURSIVE SolveAll(_, _, _, _, _)
SolveAll(dim, m, p, r, i) ==
    IF i >= dim THEN r
    ELSE Bind(SolveColumn(dim, m, p, r, i), LAMBDA rnext :
             SolveAll(dim, m, p, rnext, i + 1))

IdentityPerm(dim) == [i \in 0 .. dim - 1 |-> i]

ZeroMatrix(dim) == [idx \in 0 .. dim * dim - 1 |-> DZero]

invert(dim, m) ==
    Bind(LUAll(dim, m, IdentityPerm(dim), 0), LAMBDA lu :
        [m |-> lu.m, p |-> lu.p,
         r |-> SolveAll(dim, lu.m, lu.p, ZeroMatrix(dim), 0)])

-----------------------------------------------------------------------------
(* The inputs of the invert runs *)

\* matrix entries of the 1 x 1 and 2 x 2 inputs are integers of at most
\* this absolute value; the 3 x 3 inputs have entries 0 and 1
MaxEntry == 2

Dims == {1, 2, 3}

EntrySet(dim) == IF dim < 3 THEN (-MaxEntry) .. MaxEntry ELSE {0, 1}

IntMatrices(dim) == [0 .. dim * dim - 1 -> EntrySet(dim)]

ToDouble(im) == [idx \in DOMAIN im |-> DInt(im[idx])]

InvertStart(dim, im) ==
    [pc |-> "lu", dim |-> dim, m0 |-> im, m |-> ToDouble(im),
     p |-> IdentityPerm(dim), r |-> ZeroMatrix(dim), i |-> 0,
     zeroDiv |-> FALSE, lastR |-> 0, pivot |-> <<>>, best |-> <<>>]

InvertInputs ==
    UNION {{InvertStart(dim, im) : im \in IntMatrices(dim)} : dim \in Dims}

\* the value of a variable that a specification leaves alone
Idle == [pc |-> "none"]

InitInvert ==
    inv \in InvertInputs /\ proj = Idle /\ zeta = Idle /\ thr = Idle
    /\ loop = Idle /\ cut = Idle /\ gam = Idle /\ ker = Idle

\* one pass of the LU loop of invert
InvertLU ==
    /\ inv.pc = "lu"
    /\ \E s \in {LUStep(inv.dim, inv.m, inv.p, inv.i)} :
           inv' = [inv EXCEPT
                     !.m = s.m, !.p = s.p, !.lastR = s.r,
                     !.pivot = s.pivot, !.best = s.best,
                     !.zeroDiv = @ \/ LUDividesByZero(inv.dim, s.pivot, inv.i),
                     !.i = IF inv.i + 1 < inv.dim THEN inv.i + 1 ELSE 0,
                     !.pc = IF inv.i + 1 < inv.dim THEN "lu" ELSE "solve"]
    /\ UNCHANGED <<proj, zeta, thr, loop, cut, gam, ker>>

\* one pass of the loop that computes the inverse, column by column
InvertSolve ==
    /\ inv.pc = "solve"
    /\ inv' = [inv EXCEPT
                 !.r = SolveColumn(inv.dim, inv.m, inv.p, inv.r, inv.i),
                 !.zeroDiv = @ \/ SolveDividesByZero(inv.dim, inv.m),
                 !.i = IF inv.i + 1 < inv.dim THEN inv.i + 1 ELSE 0,
                 !.pc = IF inv.i + 1 < inv.dim THEN "solve" ELSE "done"]
    /\ UNCHANGED <<proj, zeta, thr, loop, cut, gam, ker>>

NextInvert == InvertLU \/ InvertSolve

SpecInvert == InitInvert /\ [][NextInvert]_vars

-----------------------------------------------------------------------------
(* What the claims about invert speak of *)

\* the determinant of an integer matrix of dimension 1, 2 or 3
Det(dim, a) ==
    IF dim = 1 THEN a[0]
    ELSE IF dim = 2 THEN a[0] * a[3] - a[1] * a[2]
    ELSE a[0] * (a[4] * a[8] - a[5] * a[7])
       - a[1] * (a[3] * a[8] - a[5] * a[6])
       + a[2] * (a[3] * a[7] - a[4] * a[6])

RECURSIVE DotAcc(_, _, _, _, _, _)
DotAcc(dim, a, b, i, j, k) ==
    IF k >= dim THEN DZero
    ELSE DAdd(DMul(a[i * dim + k], b[k * dim + j]),
              DotAcc(dim, a, b, i, j, k + 1))

MatMul(dim, a, b) ==
    [idx \in 0 .. dim * dim - 1 |-> DotAcc(dim, a, b, idx \div dim, idx % dim, 0)]

IsIdentity(dim, a) ==
    \A idx \in 0 .. dim * dim - 1 :
        DEq(a[idx], IF idx \div dim = idx % dim THEN DOne ELSE DZero)

RECURSIVE DiagProduct(_, _, _)
DiagProduct(dim, m, k) ==
    IF k >= dim THEN DOne ELSE DMul(m[k * dim + k], DiagProduct(dim, m, k + 1))

\* C7 (as claimed): for every nonsingular matrix M of dimension 1, 2 or 3,
\* invert leaves in r the inverse of the original M, and the product of the
\* diagonal of the overwritten m is det M up to sign.
C7_InvertInverts ==
    (inv.pc = "done" /\ Det(inv.dim, inv.m0) # 0) =>
        /\ IsIdentity(inv.dim, MatMul(inv.dim, ToDouble(inv.m0), inv.r))
        /\ DEq(DAbs(DiagProduct(inv.dim, inv.m, 0)),
               DInt(AbsInt(Det(inv.dim, inv.m0))))

\* C16: invert performs partial pivoting: after the exchange of an
\* elimination step, the entry at the pivot position m[i][i] is the entry of
\* largest absolute value among the candidates the pivot search compared
\* (inv.best, the candidate the search ended on).
C16_PivotIsLargestCandidate ==
    inv.pivot # <<>> => DEq(DAbs(inv.pivot), DAbs(inv.best))


-----------------------------------------------------------------------------
(* libm functions on binary64 values *)

DHalf == DRat(1, 2)

\* the integer nearest to a finite number of decimal exponent 0, ties to even
RoundHalfEven(a) ==
    LET f == a[1] \div a[2]
        twice == 2 * (a[1] - f * a[2])
    IN  IF twice < a[2] THEN f
        ELSE IF twice > a[2] THEN f + 1
        ELSE IF f % 2 = 0 THEN f ELSE f + 1

\* remainder(a, 1): a minus the integer nearest to a (ties to even); NaN for
\* an infinite or NaN argument; a number of decimal exponent k >= AbsorbGap
\* is its own remainder
remainder1(a) ==
    IF ~IsFinite(a) THEN DNaN
    ELSE IF a[3] >= AbsorbGap THEN a
    ELSE DSub(a, DInt(RoundHalfEven(a)))

-----------------------------------------------------------------------------
(* tools.c: dot, transpose, inf_norm; zeta.c: vectorProj *)

RECURSIVE dotAcc(_, _, _, _, _)
dotAcc(dim, v1, v2, i, r) ==
    IF i >= dim THEN r
    ELSE dotAcc(dim, v1, v2, i + 1, DAdd(r, DMul(v1[i], v2[i])))

dot(dim, v1, v2) == dotAcc(dim, v1, v2, 0, DZero)

transpose(dim, m) ==
    [idx \in DOMAIN m |-> m[(idx % dim) * dim + (idx \div dim)]]

\* vt[i] = sum over j of m_invt[dim * j + i] * v[j]  (lines 308-313)
RECURSIVE ProjCoordAcc(_, _, _, _, _, _)
ProjCoordAcc(dim, m_invt, v, i, j, acc) ==
    IF j >= dim THEN acc
    ELSE ProjCoordAcc(dim, m_invt, v, i, j + 1,
                      DAdd(acc, DMul(m_invt[dim * j + i], v[j])))

ProjCoords(dim, m_invt, v) ==
    [i \in 0 .. dim - 1 |-> ProjCoordAcc(dim, m_invt, v, i, 0, DZero)]

\* "check if projection is needed" (lines 315-317)
ProjTodo(dim, vt) ==
    \E i \in 0 .. dim - 1 :
        DLe(vt[i], DNeg(DHalf)) \/ DGe(vt[i], DHalf)

\* vres[i] = sum over j of m[dim * i + j] * vt[j]  (lines 323-328)
RECURSIVE MatVecAcc(_, _, _, _, _, _)
MatVecAcc(dim, m, vt, i, j, acc) ==
    IF j >= dim THEN acc
    ELSE MatVecAcc(dim, m, vt, i, j + 1,
                   DAdd(acc, DMul(m[dim * i + j], vt[j])))

\* vectorProj that returns the reduced coordinates vt in place of m * vt
vectorProjCoordinates(dim, m, m_invt, v) ==
    Bind(ProjCoords(dim, m_invt, v), LAMBDA vt :
        IF ProjTodo(dim, vt)
        THEN [i \in 0 .. dim - 1 |-> remainder1(vt[i])]
        ELSE v)

vectorProj(dim, m, m_invt, v) ==
    Bind(ProjCoords(dim, m_invt, v), LAMBDA vt :
        IF ProjTodo(dim, vt)
        THEN Bind([i \in 0 .. dim - 1 |-> remainder1(vt[i])], LAMBDA vr :
                 [i \in 0 .. dim - 1 |-> MatVecAcc(dim, m, vr, i, 0, DZero)])
        ELSE v)


-----------------------------------------------------------------------------
(* epsteinZetaInternal, step 1 (zeta.c lines 371-400): the scaled matrices *)
(* and vectors                                                             *)

RECURSIVE IntPow(_, _)
IntPow(b, e) == IF e = 0 THEN 1 ELSE b * IntPow(b, e - 1)

\* whether the positive integer n is a dim-th power, and its root
IsPower(n, dim) == \E r \in 1 .. n : IntPow(r, dim) = n
IRoot(n, dim) == CHOOSE r \in 1 .. n : IntPow(r, dim) = n

\* pow(vol, -1. / dim) for vol >= 0 or NaN: pow(0, y < 0) = +inf,
\* pow(+inf, y < 0) = 0, pow(NaN, y) = NaN
PowInvRoot(vol, dim) ==
    IF IsNaN(vol) THEN DNaN
    ELSE IF IsInf(vol) THEN DZero
    ELSE IF IsZero(vol) THEN DInf
    ELSE DRat(IRoot(vol[2], dim), IRoot(vol[1], dim))

\* isDiagonal (lines 377-384): every off-diagonal entry of m is exactly 0
IsDiagonal(dim, m) ==
    \A idx \in 0 .. dim * dim - 1 :
        (idx \div dim = idx % dim) \/ DEq(m[idx], DZero)

Transform(dim, m, x, y) ==
    Bind(invert(dim, m), LAMBDA lu :
    Bind(DAbs(DiagProduct(dim, lu.m, 0)), LAMBDA vol :
    Bind(PowInvRoot(vol, dim), LAMBDA ms :
    Bind(transpose(dim, lu.r), LAMBDA m_inv_t :
        [m_real |-> [idx \in DOMAIN m |-> DMul(m[idx], ms)],
         m_fourier |-> [idx \in DOMAIN m |-> DDiv(m_inv_t[idx], ms)],
         vol |-> vol, ms |-> ms,
         x_t1 |-> [i \in 0 .. dim - 1 |-> DMul(x[i], ms)],
         y_t1 |-> [i \in 0 .. dim - 1 |-> DDiv(y[i], ms)],
         isDiagonal |-> IsDiagonal(dim, m)]))))


-----------------------------------------------------------------------------
(* The lattices and vectors of the runs *)

Mat(dim, seq) == [idx \in 0 .. dim * dim - 1 |-> DInt(seq[idx + 1])]

\* generator matrices A, row-major: 1 x 1, diagonal and triangular 2 x 2,
\* the cubic lattice, and one singular matrix per dimension up to 2
Lattices ==
    { [dim |-> 1, a |-> Mat(1, <<1>>)],
      [dim |-> 1, a |-> Mat(1, <<4>>)],
      [dim |-> 1, a |-> Mat(1, <<0>>)],
      [dim |-> 2, a |-> Mat(2, <<1, 0, 0, 1>>)],
      [dim |-> 2, a |-> Mat(2, <<1, 0, 0, 4>>)],
      [dim |-> 2, a |-> Mat(2, <<1, 0, 1, 1>>)],
      [dim |-> 2, a |-> Mat(2, <<1, 2, 0, 1>>)],
      [dim |-> 2, a |-> Mat(2, <<1, 2, 2, 4>>)],
      [dim |-> 3, a |-> Mat(3, <<1, 0, 0, 0, 1, 0, 0, 0, 1>>)] }

\* vector components are the quarters n / 4 with |n| <= MaxQuarter
MaxQuarter == 6

Quarters == {DRat(n, 4) : n \in (-MaxQuarter) .. MaxQuarter}

ZeroVec(dim) == [i \in 0 .. dim - 1 |-> DZero]

\* the vectors with at most two non-zero components, both quarters
QuarterVecs(dim) ==
    {[i \in 0 .. dim - 1 |-> IF i = 0 THEN a ELSE IF i = dim - 1 THEN b ELSE DZero]
        : a \in Quarters, b \in Quarters}

-----------------------------------------------------------------------------
(* A run of vectorProj as epsteinZetaInternal calls it (lines 402-403):    *)
(* on x' with (m_real, m_fourier), on y' with (m_fourier, m_real)          *)

ProjStart(lat, which, v) ==
    Bind(Transform(lat.dim, lat.a, v, v), LAMBDA t :
        [pc |-> "call", dim |-> lat.dim, which |-> which,
         m |-> IF which = "x" THEN t.m_real ELSE t.m_fourier,
         m_invt |-> IF which = "x" THEN t.m_fourier ELSE t.m_real,
         v |-> IF which = "x" THEN t.x_t1 ELSE t.y_t1,
         res |-> ZeroVec(lat.dim)])

ProjInputs ==
    UNION {{ProjStart(lat, which, v) : which \in {"x", "y"},
                                       v \in QuarterVecs(lat.dim)}
              : lat \in Lattices}

InitProj ==
    proj \in ProjInputs /\ inv = Idle /\ zeta = Idle /\ thr = Idle
    /\ loop = Idle /\ cut = Idle /\ gam = Idle /\ ker = Idle

VectorProj ==
    /\ proj.pc = "call"
    /\ proj' = [proj EXCEPT !.pc = "done",
                            !.res = vectorProj(proj.dim, proj.m, proj.m_invt, proj.v)]
    /\ UNCHANGED <<inv, zeta, thr, loop, cut, gam, ker>>

NextProj == VectorProj

SpecProj == InitProj /\ [][NextProj]_vars

\* the lattice coordinates of the returned vector: t = m_invt^T * res
ProjResultCoords == ProjCoords(proj.dim, proj.m_invt, proj.res)

\* the matrices of the call are dual to each other: m_invt^T * m = 1
ProjDual ==
    IsIdentity(proj.dim, MatMul(proj.dim, transpose(proj.dim, proj.m_invt), proj.m))

\* C9 (as claimed): for dual matrices A', B', every lattice coordinate of
\* the vector vectorProj returns lies in the half-open interval (-1/2, 1/2].
C9_ProjectedIntoHalfOpenCell ==
    (proj.pc = "done" /\ ProjDual) =>
        \A i \in 0 .. proj.dim - 1 :
            /\ DGt(ProjResultCoords[i], DNeg(DHalf))
            /\ DLe(ProjResultCoords[i], DHalf)

\* a finite number with an integer value
IsInteger(a) == IsFinite(a) /\ (IsZero(a) \/ (a[2] = 1 /\ a[3] <= 0))

\* the lattice coordinates of v - r: m_invt^T * (v - res)
ProjShiftCoords ==
    ProjCoords(proj.dim, proj.m_invt,
               [i \in 0 .. proj.dim - 1 |-> DSub(proj.v[i], proj.res[i])])

\* C23: for every vector v, the vector r returned by vectorProj differs from
\* v by a lattice vector: the lattice coordinates B'^T (v - r) are all
\* integers, and r = v when no coordinate of B'^T v is <= -1/2 or >= 1/2.
\* Stated for matrices A', B' that are dual to each other.
C23_ProjectionShiftsByLatticeVector ==
    (proj.pc = "done" /\ ProjDual) =>
        /\ \A i \in 0 .. proj.dim - 1 : IsInteger(ProjShiftCoords[i])
        /\ (\A i \in 0 .. proj.dim - 1 :
                Bind(ProjCoords(proj.dim, proj.m_invt, proj.v)[i], LAMBDA c :
                    DGt(c, DNeg(DHalf)) /\ DLt(c, DHalf)))
              => proj.res = proj.v

\* a vector was moved by a lattice vector with two non-zero coordinates, on
\* a lattice that is not the integer lattice
C23_Witness ==
    /\ proj.pc = "done" /\ ProjDual
    /\ proj.dim = 2
    /\ ~IsIdentity(proj.dim, proj.m)
    /\ \A i \in 0 .. proj.dim - 1 :
          IsInteger(ProjShiftCoords[i]) /\ ~IsZero(ProjShiftCoords[i])

-----------------------------------------------------------------------------
(* The exponent nu of epsteinZetaInternal.  The branch conditions compare  *)
(* nu with thresholds of size 2^-30, so nu is kept as h / 2 + off * 2^-32: *)
(* a number h of halves and a small number off of units of 2^-32.          *)

Nu(h, off) == [h |-> h, off |-> off]

\* EPS = ldexp(1, -30), in units of 2^-32
EPS == 4

\* nu < 1
NuBelowOne(nu) == nu.h < 2 \/ (nu.h = 2 /\ nu.off < 0)

\* nu > 0
NuPositive(nu) == nu.h > 0 \/ (nu.h = 0 /\ nu.off > 0)

\* nu == 0
NuIsZero(nu) == nu.h = 0 /\ nu.off = 0

\* fabs((nu / 2.) - nearbyint(nu / 2.)) < EPS: nu / 2 is h / 4 plus off / 2
\* units; for h not a multiple of 4 the distance is at least 1 / 4 - |off| / 2
\* units
NuHalfNearInteger(nu) == nu.h % 4 = 0 /\ AbsInt(nu.off) < 2 * EPS

\* fabs(nu - dim) < EPS
NuNearDim(nu, dim) == nu.h = 2 * dim /\ AbsInt(nu.off) < EPS

\* nu == (dim + 2 * k) with k = fmax(0., nearbyint((nu - (double)dim) / 2)):
\* nu is an integer n >= dim with n - dim even
NuIsDimPlus2k(nu, dim) ==
    /\ nu.off = 0
    /\ nu.h % 2 = 0
    /\ nu.h \div 2 >= dim
    /\ (nu.h \div 2 - dim) % 2 = 0

\* the largest e with 2^e <= n / d, for integers n, d > 0
RECURSIVE Log2Floor(_, _)
Log2Floor(n, d) ==
    IF n >= d THEN (IF n >= 2 * d THEN 1 + Log2Floor(n, 2 * d) ELSE 0)
    ELSE Log2Floor(2 * n, d) - 1

\* pow(ms, nu) for ms >= 0 or NaN, as one of "one" (exactly 1), "fin" (finite,
\* neither 0 nor 1), "zero", "inf", "nan".  pow(x, 0) = 1 for every x, NaN
\* included, and pow(1, y) = 1.  For finite ms = 2^e the result is 2^(e * nu):
\* +inf from 2^1024 on, 0 below 2^-1075.
PowClass(ms, nu) ==
    IF NuIsZero(nu) THEN "one"
    ELSE IF IsNaN(ms) THEN "nan"
    ELSE IF IsInf(ms) THEN (IF NuPositive(nu) THEN "inf" ELSE "zero")
    ELSE IF IsZero(ms) THEN (IF NuPositive(nu) THEN "zero" ELSE "inf")
    ELSE IF ms = DOne THEN "one"
    ELSE Bind(Log2Floor(ms[1], ms[2]) * nu.h, LAMBDA twice :
             IF twice >= 2048 THEN "inf"
             ELSE IF twice < -2150 THEN "zero"
             ELSE "fin")

-----------------------------------------------------------------------------
(* double complex values.  A component is "nan", "zero", "inf", "val" (a   *)
(* finite non-zero number) or "any" (a number the lattice sums decide);    *)
(* term says how the value was put together.                               *)

Complex(re, im, term) == [re |-> re, im |-> im, term |-> term]

\* res = 0
CZero == Complex("zero", "zero", [op |-> "0"])

\* res = NAN: the double NaN converted to double complex has imaginary part 0
CNaN == Complex("nan", "zero", [op |-> "NAN"])

\* a component times a real factor (PowClass)
MulClass(c, p) ==
    IF p = "one" THEN c
    ELSE IF c = "nan" \/ p = "nan" THEN "nan"
    ELSE IF c = "any" THEN "any"
    ELSE IF c = "zero" THEN (IF p = "inf" THEN "nan" ELSE "zero")
    ELSE IF c = "inf" THEN (IF p = "zero" THEN "nan" ELSE "inf")
    ELSE IF p = "fin" THEN "val" ELSE p

\* the sum of two components
AddClass(c, e) ==
    IF c = "nan" \/ e = "nan" THEN "nan"
    ELSE IF c = "any" \/ e = "any" THEN "any"
    ELSE IF c = "zero" THEN e
    ELSE IF e = "zero" THEN c
    ELSE IF c = "inf" /\ e = "inf" THEN "any"
    ELSE IF c = "inf" \/ e = "inf" THEN "inf"
    ELSE "any"

\* cos and sin of 2 * pi * d as components: cexp(0) = 1 + 0i
CosClass(d) == IF IsFinite(d) THEN "val" ELSE "nan"
SinClass(d) == IF ~IsFinite(d) THEN "nan" ELSE IF IsZero(d) THEN "zero" ELSE "val"

\* -1 * cexp(-2 * M_PI * I * d)
NegExp(d) == Complex(CosClass(d), SinClass(d), [op |-> "-cexp(-2 pi i d)", d |-> d])

\* cexp(2 * M_PI * I * d) * z, the product of two double complex values
MulExp(d, z) ==
    Complex(AddClass(MulClass(z.re, IF CosClass(d) = "val" THEN "fin" ELSE "nan"),
                     MulClass(z.im, IF SinClass(d) = "val" THEN "fin" ELSE SinClass(d))),
            AddClass(MulClass(z.im, IF CosClass(d) = "val" THEN "fin" ELSE "nan"),
                     MulClass(z.re, IF SinClass(d) = "val" THEN "fin" ELSE SinClass(d))),
            [op |-> "cexp(2 pi i d) * z", d |-> d, z |-> z.term])

\* res *= pow(ms, nu): double complex times double, component by component
CScale(z, p, ms, nu) ==
    IF p = "one" THEN z
    ELSE Complex(MulClass(z.re, p), MulClass(z.im, p),
                 [op |-> "z * pow(ms, nu)", z |-> z.term, ms |-> ms, nu |-> nu])

-----------------------------------------------------------------------------
(* epsteinZetaInternal (zeta.c lines 355-517), one call at a time           *)

\* mult_abs(dim, alpha) = alpha[0] + ... + alpha[dim - 1].  epsteinZeta and
\* epsteinZetaReg pass the one-element array {0}: for dim > 1 the elements
\* from index 1 on are read outside the array and may hold anything, any
\* value of Garbage here.
Garbage == {0, 1}

RECURSIVE SumSeq(_)
SumSeq(s) == IF s = <<>> THEN 0 ELSE Head(s) + SumSeq(Tail(s))

mult_abs(dim, alpha) ==
    IF Len(alpha) >= dim THEN {SumSeq(SubSeq(alpha, 1, dim))}
    ELSE {SumSeq(alpha) + g : g \in Garbage}

\* mult_abs reads alpha[0] to alpha[dim - 1]: some index it reads is not
\* an index of the array (alpha is kept as a sequence, alpha[i] is its
\* element i + 1)
mult_absReadsOutside(dim, alpha) == \E i \in 0 .. dim - 1 : i + 1 > Len(alpha)

\* the first "Early return": variant == 2 && !alphaAbs
DelegatesToPlain(variant, alphaAbs) == variant = 2 /\ alphaAbs = 0

\* the second: variant == 3 && !alphaAbs
DelegatesToReg(variant, alphaAbs) == variant = 3 /\ alphaAbs = 0

\* The heap blocks of a call: vectorProj allocates vt and, when it projects,
\* vres; the first call ("x") is for x_t2 and the second ("y") for y_t2.
Blocks == {<<c, b>> : c \in {"x", "y"}, b \in {"vt", "vres"}}

\* no block allocated, x_t2 and y_t2 not assigned
NoMem == [heap |-> [b \in Blocks |-> "none"], x_t2 |-> <<>>, y_t2 |-> <<>>]

malloc(heap, b) == [heap EXCEPT ![b] = "live"]

\* free of a block that is not live (freed before, or never allocated) is
\* recorded as "invalid"
free(heap, b) ==
    [heap EXCEPT ![b] = IF @ = "live" THEN "freed" ELSE "invalid"]

\* vectorProj that returns vres and keeps vt
vectorProjHeapKeepsVt(heap, c, dim, m_invt, v) ==
    Bind(malloc(heap, <<c, "vt">>), LAMBDA h :
        IF ProjTodo(dim, ProjCoords(dim, m_invt, v))
        THEN [heap |-> malloc(h, <<c, "vres">>), ptr |-> <<c, "vres">>]
        ELSE [heap |-> h, ptr |-> <<c, "vt">>])

\* what vectorProj does to the heap: malloc of vt (line 307); if todo,
\* malloc of vres (line 322), free(vt) and return vres (lines 329-330);
\* else return vt (line 335)
vectorProjHeap(heap, c, dim, m_invt, v) ==
    Bind(malloc(heap, <<c, "vt">>), LAMBDA h :
        IF ProjTodo(dim, ProjCoords(dim, m_invt, v))
        THEN [heap |-> free(malloc(h, <<c, "vres">>), <<c, "vt">>),
              ptr |-> <<c, "vres">>]
        ELSE [heap |-> h, ptr |-> <<c, "vt">>])

\* lines 402-403: x_t2 = vectorProj(dim, m_real, m_fourier, x_t1) and
\* y_t2 = vectorProj(dim, m_fourier, m_real, y_t1)
AllocProjections(mem, dim, t) ==
    Bind(vectorProjHeap(mem.heap, "x", dim, t.m_fourier, t.x_t1), LAMBDA px :
        Bind(vectorProjHeap(px.heap, "y", dim, t.m_real, t.y_t1), LAMBDA py :
            [heap |-> py.heap, x_t2 |-> px.ptr, y_t2 |-> py.ptr]))

\* lines 497-498: free(x_t2); free(y_t2)
FreeProjections(mem) ==
    [mem EXCEPT !.heap = free(free(mem.heap, mem.x_t2), mem.y_t2)]

\* steps 1 and 2 (lines 371-403): Transform and the two projections
TransformAndProject(dim, m, x, y) ==
    Bind(Transform(dim, m, x, y), LAMBDA t :
        [m_real |-> t.m_real, m_fourier |-> t.m_fourier,
         vol |-> t.vol, ms |-> t.ms, x_t1 |-> t.x_t1, y_t1 |-> t.y_t1,
         isDiagonal |-> t.isDiagonal,
         x_t2 |-> vectorProj(dim, t.m_real, t.m_fourier, t.x_t1),
         y_t2 |-> vectorProj(dim, t.m_fourier, t.m_real, t.y_t1)])

\* EPS_ZERO_Y = 1e-64
EPS_ZERO_Y == DSci(1, 1, 64)

\* the condition of line 425: "handle special case of non-positive integer
\* values nu"
SpecialCase(nu, variant) ==
    NuBelowOne(nu) /\ NuHalfNearInteger(nu) /\ (variant = 0 \/ variant = 1)

\* the pole condition without its test of the variant
PoleCaseAnyVariant(nu, dim, y_t2, variant) ==
    NuNearDim(nu, dim) /\ DLt(dot(dim, y_t2, y_t2), EPS_ZERO_Y)

\* the condition of lines 432-433, read when SpecialCase is false
PoleCase(nu, dim, y_t2, variant) ==
    NuNearDim(nu, dim) /\ DLt(dot(dim, y_t2, y_t2), EPS_ZERO_Y) /\ variant = 0

Branch(nu, dim, y_t2, variant) ==
    IF SpecialCase(nu, variant) THEN "special"
    ELSE IF PoleCase(nu, dim, y_t2, variant) THEN "pole"
    ELSE "sums"

\* lines 426-430
SpecialValue(nu, dim, x_t1, x_t2, y_t2) ==
    IF DEq(dot(dim, x_t2, x_t2), DZero) /\ NuIsZero(nu)
    THEN NegExp(dot(dim, x_t1, y_t2))
    ELSE CZero

\* dim - nu
DimMinusNu(dim, nu) == Nu(2 * dim - nu.h, -nu.off)

\* lo / 10 < nu < hi / 10
NuBetween(nu, lo, hi) ==
    /\ 5 * nu.h > lo \/ (5 * nu.h = lo /\ nu.off > 0)
    /\ 5 * nu.h < hi \/ (5 * nu.h = hi /\ nu.off < 0)

\* the table without its first row
assignzArgBoundFromSecondRow(nu) ==
    IF NuBetween(nu, 16, 44) THEN "M_PI * 2.99 * 2.99"
    ELSE IF NuBetween(nu, -30, 80) THEN "M_PI * 3.15 * 3.15"
    ELSE IF NuBetween(nu, -700, 400) THEN "M_PI * 3.35 * 3.35"
    ELSE IF NuBetween(nu, -6000, 800) THEN "M_PI * 3.5 * 3.5"
    ELSE "pow(10, 16)"

\* crandall.c lines 48-65: the threshold on the argument from which on
\* crandall_g uses the asymptotic expansion, named by the expression returned
assignzArgBound(nu) ==
    IF nu.h \in {4, 8} /\ AbsInt(nu.off) < EPS THEN "M_PI * 2.6 * 2.6"
    ELSE IF NuBetween(nu, 16, 44) THEN "M_PI * 2.99 * 2.99"
    ELSE IF NuBetween(nu, -30, 80) THEN "M_PI * 3.15 * 3.15"
    ELSE IF NuBetween(nu, -700, 400) THEN "M_PI * 3.35 * 3.35"
    ELSE IF NuBetween(nu, -6000, 800) THEN "M_PI * 3.5 * 3.5"
    ELSE "pow(10, 16)"

\* M_PI to seven digits
Pi == DRat(355, 113)

\* ldexp(1, -62) = 2.168404344971e-19, to nine digits
OriginBound == DSci(216840434, 1, 27)

\* crandall.c lines 80-85: zArgument = dot(dim, z, z) * M_PI * prefactor *
\* prefactor, and "if (zArgument < ldexp(1, -62)) return -2. / nu"
crandall_gAtOrigin(dim, z, prefactor) ==
    DLt(DMul(dot(dim, z, z), DMul(Pi, DInt(prefactor * prefactor))),
        OriginBound)

\* the summand nc of the reciprocal sum for k = 0: the function that
\* computes it (lines 450, 459, 479-485), the threshold it is given and,
\* for crandall_g, whether it returns its value at the origin, -2. / (dim -
\* nu)
ZeroSummand(nu, dim, t, variant, lambda) ==
    IF variant = 0
    THEN [fn |-> "crandall_g", zArgBound |-> assignzArgBound(nu),
          origin |-> crandall_gAtOrigin(dim, t.y_t2, lambda)]
    ELSE IF variant = 1 THEN [fn |-> "crandall_gReg"]
    ELSE IF variant = 2
    THEN [fn |-> "crandall_g_der",
          zArgBound |-> assignzArgBound(DimMinusNu(dim, nu))]
    ELSE [fn |-> "none"]

\* EPS of tools.c, ldexp(1, -32) = 2.32830644e-10, to nine digits
TOOLS_EPS == DSci(232830644, 1, 18)

\* fabs(a) < EPS for the EPS of tools.c.  A finite number of decimal
\* exponent k >= AbsorbGap is below 2^31 * 10^-20 < EPS, and a non-zero number
\* of decimal exponent k <= 0 is at least 2^-31 > EPS.
BelowToolsEps(a) ==
    IF ~IsFinite(a) THEN FALSE
    ELSE IF IsZero(a) \/ a[3] >= AbsorbGap THEN TRUE
    ELSE IF a[3] <= 0 THEN FALSE
    ELSE DLt(DAbs(a), TOOLS_EPS)

\* equals that finds any two vectors equal
equalsAlways(dim, v1, v2) == TRUE

\* tools.c lines 75-81: every fabs(v1[i] - v2[i]) is below EPS
equals(dim, v1, v2) ==
    \A i \in 0 .. dim - 1 : BelowToolsEps(DSub(v1[i], v2[i]))

\* k = -(double)nearbyint(s / 2.) (src/C/src/crandall.c line 82): s / 2 is
\* h / 4 plus half of off units, which decides the tie of h / 4 = n + 1 / 2
gRegK(s) ==
    IF s.h % 4 = 2 /\ s.off # 0
    THEN -(IF s.off > 0 THEN s.h \div 4 + 1 ELSE s.h \div 4)
    ELSE -RoundHalfEven(DRat(s.h, 4))

\* the expansion for every s < 1
crandall_gRegExpandsBelowOne(s) == NuBelowOne(s)

\* crandall_gReg (src/C/src/crandall.c lines 83-86): with
\* k = -nearbyint(s / 2.), "if (s < 1 && (s == -2 * k))" the function returns
\* crandall_gReg_nuequalsdimplus2k(s, zArgument, k, prefactor)
crandall_gRegExpands(s) == NuBelowOne(s) /\ s.off = 0 /\ s.h = -4 * gRegK(s)

\* crandall_g(dim, dim - nu, z, lambda, zArgBoundReci) *
\* cexp(-2 * M_PI * I * dot(dim, x, z)), one term of lines 465-468
ZeroSummandTerm(nu, dim, x, z) ==
    [fn |-> "crandall_g", z |-> z,
     zArgBound |-> assignzArgBound(DimMinusNu(dim, nu)),
     phase |-> dot(dim, x, z)]

\* the reciprocal sum s2 before the zero summand nc is added: the function
\* called, the x and y it is given, and for variant 1 (lines 459-470) the
\* zero summand crandall_gReg is given, the terms added to and subtracted
\* from s2 "to correct wrong zero summand in regularized fourier sum", and
\* the argument of rot
ReciprocalSum(nu, dim, t, variant) ==
    IF variant = 0
    THEN [fn |-> "sum_fourier", x |-> t.x_t2, y |-> t.y_t2,
          zArgBound |-> assignzArgBound(DimMinusNu(dim, nu))]
    ELSE IF variant = 1
    THEN [fn |-> "sum_fourier", x |-> t.x_t1, y |-> t.y_t2,
          zArgBound |-> assignzArgBound(DimMinusNu(dim, nu)),
          nc |-> [fn |-> "crandall_gReg", z |-> t.y_t1,
                  expands |-> crandall_gRegExpands(DimMinusNu(dim, nu))],
          corrected |-> ~equals(dim, t.y_t1, t.y_t2),
          added |-> IF ~equals(dim, t.y_t1, t.y_t2)
                    THEN <<ZeroSummandTerm(nu, dim, t.x_t1, t.y_t2)>>
                    ELSE <<>>,
          subtracted |-> IF ~equals(dim, t.y_t1, t.y_t2)
                         THEN <<ZeroSummandTerm(nu, dim, t.x_t1, t.y_t1)>>
                         ELSE <<>>,
          rot |-> dot(dim, t.x_t1, t.y_t1)]
    ELSE IF variant = 2
    THEN [fn |-> "sum_fourier_der", x |-> t.x_t1, y |-> t.y_t2,
          zArgBound |-> assignzArgBound(DimMinusNu(dim, nu))]
    ELSE [fn |-> "none"]

\* lines 436-496: res = xfactor * pow(lambda * lambda / M_PI, -nu / 2.) /
\* tgamma(nu / 2.) * (s1 + pow(lambda, dim) * s2).  s1 is assigned a real
\* space sum and s2 a reciprocal space sum for variant 0, 1 and 2; no branch
\* assigns them for variant 3, where they keep their initial value 0 and res
\* is 0 times the prefactor, which is NaN when tgamma(nu / 2.) is (nu / 2 a
\* negative integer).
SumsValue(nu, dim, t, variant, lambda) ==
    IF variant \in {0, 1, 2}
    THEN Complex("any", "any",
                 [op |-> "sums", variant |-> variant, lambda |-> lambda,
                  s1 |-> "sum_real", s2 |-> "sum_fourier",
                  reci |-> ReciprocalSum(nu, dim, t, variant),
                  nc |-> ZeroSummand(nu, dim, t, variant, lambda)])
    ELSE Bind(IF nu.off = 0 /\ nu.h % 4 = 0 /\ nu.h < 0 THEN "nan" ELSE "zero",
              LAMBDA c :
                 Complex(c, c,
                         [op |-> "sums", variant |-> variant, lambda |-> lambda,
                          s1 |-> "0", s2 |-> "0",
                          reci |-> ReciprocalSum(nu, dim, t, variant),
                          nc |-> ZeroSummand(nu, dim, t, variant, lambda)]))

BranchValue(branch, nu, dim, t, variant, lambda) ==
    IF branch = "special" THEN SpecialValue(nu, dim, t.x_t1, t.x_t2, t.y_t2)
    ELSE IF branch = "pole" THEN CNaN
    ELSE SumsValue(nu, dim, t, variant, lambda)

\* the condition without its test of the variant
LogCorrectedAnyVariant(nu, dim, variant) == NuIsDimPlus2k(nu, dim)

\* the condition of line 502: "apply correction to matrix scaling if
\* nu = d + 2k"
LogCorrected(nu, dim, variant) == variant = 1 /\ NuIsDimPlus2k(nu, dim)

\* log(ms * ms) / vol as a component: ms = +inf goes with vol = 0 and gives
\* +inf / 0, ms = 0 goes with vol = +inf and gives -inf / +inf
LogClass(ms, vol) ==
    IF IsNaN(ms) \/ IsNaN(vol) THEN "nan"
    ELSE IF ms = DOne THEN "zero"
    ELSE IF IsInf(ms) THEN "inf"
    ELSE IF IsZero(ms) THEN "nan"
    ELSE "val"

\* lines 503-514: the correction added to (k = 0) or subtracted from (k > 0)
\* res, a real number; for k > 0 it has the factor pow(ySquared, k)
LogCorrection(z, nu, dim, y, ms, vol) ==
    Bind(IF nu.h = 2 * dim THEN "one"
         ELSE IF DEq(dot(dim, y, y), DZero) THEN "zero" ELSE "fin",
         LAMBDA yk :
            Complex(AddClass(z.re, MulClass(LogClass(ms, vol), yk)), z.im,
                    [op |-> "z + log(ms * ms) correction", z |-> z.term,
                     assign |-> IF nu.h = 2 * dim THEN "+=" ELSE "-=",
                     k |-> (nu.h \div 2 - dim) \div 2]))

\* lines 497-516: res *= pow(ms, nu), then the correction
ScaledValue(z, nu, dim, y, t, variant) ==
    Bind(CScale(z, PowClass(t.ms, nu), t.ms, nu), LAMBDA scaled :
        IF LogCorrected(nu, dim, variant)
        THEN LogCorrection(scaled, nu, dim, y, t.ms, t.vol)
        ELSE scaled)

-----------------------------------------------------------------------------
(* The calls of the four entry points (epsteinZeta.c lines 37-92)          *)

\* nu = h / 2 for h in NuHalves: -600, -2, -1, 0, 1/2, 1, 3/2, 2, 3, 5
NuHalves == {-1200, -4, -2, 0, 1, 2, 3, 4, 6, 10}

\* offsets on both sides of the thresholds EPS and 2 * EPS
NuOffsets == {-2 * EPS, 1 - 2 * EPS, -EPS, 1 - EPS, EPS - 1, EPS,
              2 * EPS - 1, 2 * EPS}

NuValues ==
    {Nu(h, 0) : h \in NuHalves}
        \cup {Nu(h, off) : h \in {0, 2, 4, 6}, off \in NuOffsets}

\* the vector (c, 0, ..., 0)
Vec(dim, c) == [i \in 0 .. dim - 1 |-> IF i = 0 THEN c ELSE DZero]

\* 0, 1 / 4, 1, and 3, which the lattice of spacing 4 projects to -1
XValues == {DZero, DRat(1, 4), DOne, DInt(3)}

\* 0, 1 / 4, and 1e-33 and 1e-31 on the two sides of |y|^2 = EPS_ZERO_Y
YValues == {DZero, DRat(1, 4), DSci(1, 1, 33), DSci(1, 1, 31)}

\* the multi-indices 0 and (1, 0, ..., 0)
Alphas(dim) == {[i \in 1 .. dim |-> IF i = 1 THEN n ELSE 0] : n \in {0, 1}}

NoTransform == [ms |-> DNaN]

\* no call has returned yet
NoCall == [entry |-> "none"]

ZetaStart(nu, lat, x, y) ==
    [pc |-> "idle", nu |-> nu, dim |-> lat.dim, a |-> lat.a,
     x |-> Vec(lat.dim, x), y |-> Vec(lat.dim, y),
     entry |-> "none", variant |-> 0, lambda |-> 0, alpha |-> <<>>,
     alphaAbs |-> 0, depth |-> 0, rot |-> <<>>, t |-> NoTransform,
     branch |-> "none", res |-> CZero, prev |-> NoCall, mem |-> NoMem,
     outside |-> FALSE]

ZetaInputs ==
    {ZetaStart(nu, lat, x, y) :
        nu \in NuValues, lat \in Lattices, x \in XValues, y \in YValues}

Init ==
    zeta \in ZetaInputs /\ inv = Idle /\ proj = Idle /\ thr = Idle
    /\ loop = Idle /\ cut = Idle /\ gam = Idle /\ ker = Idle

\* the call epsteinZetaInternal(nu, dim, a, x, y, lambda, variant, alpha)
Call(entry, lambda, variant, alpha) ==
    /\ zeta.pc = "idle"
    /\ zeta' = [zeta EXCEPT !.pc = "internal", !.entry = entry,
                            !.lambda = lambda, !.variant = variant,
                            !.alpha = alpha]
    /\ UNCHANGED <<inv, proj, thr, loop, cut, gam, ker>>

\* the alpha of epsteinZeta and epsteinZetaReg: (unsigned int[]){0}
NoAlpha == <<0>>

epsteinZeta == \E alpha \in {NoAlpha} : Call("epsteinZeta", 1, 0, alpha)

epsteinZetaReg == \E alpha \in {NoAlpha} : Call("epsteinZetaReg", 1, 1, alpha)

setZetaDer == \E alpha \in Alphas(zeta.dim) : Call("setZetaDer", 1, 2, alpha)

epsteinZetaRegDer ==
    \E alpha \in Alphas(zeta.dim) : Call("epsteinZetaRegDer", 1, 3, alpha)

\* the first early return with the variant of the second
InternalDelegatePlainAsReg ==
    /\ zeta.pc = "internal"
    /\ \E alphaAbs \in mult_abs(zeta.dim, zeta.alpha) :
          DelegatesToPlain(zeta.variant, alphaAbs)
    /\ zeta' = [zeta EXCEPT !.lambda = 1, !.variant = 1, !.depth = @ + 1,
                            !.outside =
                                @ \/ mult_absReadsOutside(zeta.dim, zeta.alpha),
                            !.rot = <<dot(zeta.dim, zeta.x, zeta.y)>>]
    /\ UNCHANGED <<inv, proj, thr, loop, cut, gam, ker>>

\* lines 361-364: return cexp(2 * M_PI * I * dot(dim, x, y)) *
\* epsteinZetaInternal(nu, dim, m, x, y, 1, 0, alpha); the factor waits in
\* rot for the inner call to return
InternalDelegatePlain ==
    /\ zeta.pc = "internal"
    /\ \E alphaAbs \in mult_abs(zeta.dim, zeta.alpha) :
          DelegatesToPlain(zeta.variant, alphaAbs)
    /\ zeta' = [zeta EXCEPT !.lambda = 1, !.variant = 0, !.depth = @ + 1,
                            !.outside =
                                @ \/ mult_absReadsOutside(zeta.dim, zeta.alpha),
                            !.rot = <<dot(zeta.dim, zeta.x, zeta.y)>>]
    /\ UNCHANGED <<inv, proj, thr, loop, cut, gam, ker>>

\* lines 366-368: return epsteinZetaInternal(nu, dim, m, x, y, 1, 1, alpha)
InternalDelegateReg ==
    /\ zeta.pc = "internal"
    /\ \E alphaAbs \in mult_abs(zeta.dim, zeta.alpha) :
          DelegatesToReg(zeta.variant, alphaAbs)
    /\ zeta' = [zeta EXCEPT !.lambda = 1, !.variant = 1, !.depth = @ + 1,
                            !.outside =
                                @ \/ mult_absReadsOutside(zeta.dim, zeta.alpha)]
    /\ UNCHANGED <<inv, proj, thr, loop, cut, gam, ker>>

\* lines 359-403 of a call that does not return early
InternalTransform ==
    /\ zeta.pc = "internal"
    /\ \E alphaAbs \in mult_abs(zeta.dim, zeta.alpha) :
          /\ ~DelegatesToPlain(zeta.variant, alphaAbs)
          /\ ~DelegatesToReg(zeta.variant, alphaAbs)
          /\ \E t \in {TransformAndProject(zeta.dim, zeta.a, zeta.x, zeta.y)} :
                zeta' = [zeta EXCEPT
                           !.pc = "transformed", !.alphaAbs = alphaAbs,
                           !.t = t,
                           !.outside =
                               @ \/ mult_absReadsOutside(zeta.dim, zeta.alpha),
                           !.mem = AllocProjections(zeta.mem, zeta.dim, t)]
    /\ UNCHANGED <<inv, proj, thr, loop, cut, gam, ker>>

\* lines 423-496: the choice of the branch and the value it assigns to res
InternalBranch ==
    /\ zeta.pc = "transformed"
    /\ \E branch \in {Branch(zeta.nu, zeta.dim, zeta.t.y_t2, zeta.variant)} :
          zeta' = [zeta EXCEPT
                     !.pc = "branched", !.branch = branch,
                     !.res = BranchValue(branch, zeta.nu, zeta.dim, zeta.t,
                                         zeta.variant, zeta.lambda)]
    /\ UNCHANGED <<inv, proj, thr, loop, cut, gam, ker>>

\* lines 497-516: the scaling by pow(ms, nu) and the correction
InternalScale ==
    /\ zeta.pc = "branched"
    /\ zeta' = [zeta EXCEPT
                  !.pc = "return",
                  !.mem = FreeProjections(zeta.mem),
                  !.res = ScaledValue(zeta.res, zeta.nu, zeta.dim, zeta.y,
                                      zeta.t, zeta.variant)]
    /\ UNCHANGED <<inv, proj, thr, loop, cut, gam, ker>>

\* "return res", and the multiplication that waits in the delegating call
InternalReturn ==
    /\ zeta.pc = "return"
    /\ zeta' = [zeta EXCEPT
                  !.pc = "done",
                  !.res = IF zeta.rot = <<>> THEN zeta.res
                          ELSE MulExp(zeta.rot[1], zeta.res)]
    /\ UNCHANGED <<inv, proj, thr, loop, cut, gam, ker>>

\* the caller keeps the value of epsteinZeta or epsteinZetaReg and goes on to
\* a second call with the same nu, dim, a, x and y
NextCall ==
    /\ zeta.pc = "done"
    /\ zeta.prev = NoCall
    /\ zeta.entry \in {"epsteinZeta", "epsteinZetaReg"}
    /\ zeta' = [ZetaStart(zeta.nu, [dim |-> zeta.dim, a |-> zeta.a], DZero, DZero)
                   EXCEPT !.x = zeta.x, !.y = zeta.y,
                          !.prev = [entry |-> zeta.entry, res |-> zeta.res]]
    /\ UNCHANGED <<inv, proj, thr, loop, cut, gam, ker>>

Next ==
    \/ epsteinZeta
    \/ epsteinZetaReg
    \/ setZetaDer
    \/ epsteinZetaRegDer
    \/ InternalDelegatePlain
    \/ InternalDelegateReg
    \/ InternalTransform
    \/ InternalBranch
    \/ InternalScale
    \/ InternalReturn
    \/ NextCall

Spec == Init /\ [][Next]_vars

-----------------------------------------------------------------------------
(* What the claims about the dispatcher speak of *)

\* a double complex value with a NaN component
IsNaNValue(z) == z.re = "nan" \/ z.im = "nan"

\* the call has chosen its branch
ZetaBranched == zeta.pc \in {"branched", "return", "done"}

\* the call is one of the plain or the regularized entry point itself
ZetaDirect(entry) == zeta.entry = entry /\ zeta.depth = 0

\* |nu - d| < 2^-30 and |y''|^2 < 10^-64
ZetaAtPole ==
    /\ NuNearDim(zeta.nu, zeta.dim)
    /\ DLt(dot(zeta.dim, zeta.t.y_t2, zeta.t.y_t2), EPS_ZERO_Y)

\* the generator matrix has integer entries here
ZetaDet == Det(zeta.dim, [idx \in DOMAIN zeta.a |-> zeta.a[idx][1]])

\* a diagonal generator matrix with non-zero determinant
ZetaDiagonalLattice == IsDiagonal(zeta.dim, zeta.a) /\ ZetaDet # 0

VariantOf(entry) ==
    CASE entry = "epsteinZeta" -> 0
      [] entry = "epsteinZetaReg" -> 1
      [] entry = "setZetaDer" -> 2
      [] entry = "epsteinZetaRegDer" -> 3

\* C1: for epsteinZeta (variant 0), whenever |nu - d| < 2^-30 and the
\* projected y'' has |y''|^2 < 10^-64, the returned value is NaN; for
\* epsteinZetaReg (variant 1) on the same inputs the pole branch is not taken
\* and the result is assembled from the real and the reciprocal sum.
C1_PoleIsNaNOnlyForPlain ==
    /\ (zeta.pc = "done" /\ ZetaDirect("epsteinZeta") /\ ZetaAtPole)
          => IsNaNValue(zeta.res)
    /\ (ZetaBranched /\ ZetaDirect("epsteinZetaReg") /\ ZetaAtPole)
          => zeta.branch = "sums"
    /\ (zeta.pc = "branched" /\ ZetaDirect("epsteinZetaReg") /\ ZetaAtPole)
          => /\ zeta.res.term.op = "sums"
             /\ zeta.res.term.s1 = "sum_real"
             /\ zeta.res.term.s2 = "sum_fourier"

\* a plain call has returned NaN from the pole branch, for a nu next to d
\* and a y next to 0
C1_Witness ==
    /\ zeta.pc = "done"
    /\ ZetaDirect("epsteinZeta")
    /\ zeta.branch = "pole"
    /\ zeta.nu.off # 0
    /\ zeta.y # ZeroVec(zeta.dim)
    /\ IsNaNValue(zeta.res)

\* C2 (as claimed): at the pole (plain variant, nu = d, y = 0) the real part
\* and the imaginary part of the returned value are both NaN, also after the
\* multiplication by mu^nu.
C2_PoleBothComponentsNaN ==
    (/\ zeta.pc = "done"
     /\ ZetaDirect("epsteinZeta")
     /\ zeta.nu = Nu(2 * zeta.dim, 0)
     /\ zeta.y = ZeroVec(zeta.dim)
     /\ ZetaDiagonalLattice)
        => zeta.res.re = "nan" /\ zeta.res.im = "nan"

\* C3 (as claimed): the even-integer special-case branch is taken only when
\* nu <= 0, |nu / 2 - round(nu / 2)| < 2^-30 and the variant is 0 or 1; for
\* no nu > 0 is it taken.
C3_SpecialOnlyForNonPositiveNu ==
    (ZetaBranched /\ zeta.branch = "special")
        => /\ ~NuPositive(zeta.nu)
           /\ NuHalfNearInteger(zeta.nu)
           /\ zeta.variant \in {0, 1}

\* C4 (as claimed): when the special-case branch is taken, the returned value
\* is -exp(-2 pi i x'.y'') if x'' is the zero vector and nu = 0, and exactly
\* 0 in every other case; no log(mu^2) correction is added.  Stated for the
\* plain and the regularized entry point on a diagonal generator matrix.
C4_SpecialValueReturned ==
    (/\ zeta.pc = "done"
     /\ zeta.branch = "special"
     /\ zeta.depth = 0
     /\ ZetaDiagonalLattice)
        => IF /\ DEq(dot(zeta.dim, zeta.t.x_t2, zeta.t.x_t2), DZero)
              /\ NuIsZero(zeta.nu)
           THEN zeta.res = NegExp(dot(zeta.dim, zeta.t.x_t1, zeta.t.y_t2))
           ELSE zeta.res.re = "zero" /\ zeta.res.im = "zero"

\* C5: the entry points call the dispatcher with lambda = 1 and the variants
\* 0, 1, 2, 3; with |alpha| = 0, setZetaDer returns exp(2 pi i x.y) times the
\* value epsteinZeta returned for the same nu, d, A, x, y, and
\* epsteinZetaRegDer returns the value epsteinZetaReg returned for them.
C5_DerivativesOfOrderZero ==
    /\ (zeta.pc = "internal" /\ zeta.depth = 0)
          => zeta.lambda = 1 /\ zeta.variant = VariantOf(zeta.entry)
    /\ (/\ zeta.pc = "done" /\ zeta.entry = "setZetaDer"
        /\ SumSeq(zeta.alpha) = 0 /\ zeta.prev.entry = "epsteinZeta")
          => zeta.res = MulExp(dot(zeta.dim, zeta.x, zeta.y), zeta.prev.res)
    /\ (/\ zeta.pc = "done" /\ zeta.entry = "epsteinZetaRegDer"
        /\ SumSeq(zeta.alpha) = 0 /\ zeta.prev.entry = "epsteinZetaReg")
          => zeta.res = zeta.prev.res

\* setZetaDer with alpha = 0 has returned after epsteinZeta, for x.y # 0 and
\* a value of the lattice sums
C5_Witness ==
    /\ zeta.pc = "done"
    /\ zeta.entry = "setZetaDer"
    /\ SumSeq(zeta.alpha) = 0
    /\ zeta.prev.entry = "epsteinZeta"
    /\ zeta.branch = "sums"
    /\ ~IsZero(dot(zeta.dim, zeta.x, zeta.y))

\* C6 (as claimed): for |alpha| > 0 the result of epsteinZetaRegDer
\* (variant 3) is assembled from a real-space sum and a reciprocal-space sum.
C6_RegDerAssembledFromSums ==
    (/\ zeta.pc = "branched"
     /\ zeta.entry = "epsteinZetaRegDer"
     /\ zeta.alphaAbs > 0)
        => /\ zeta.branch = "sums"
           /\ zeta.res.term.s1 = "sum_real"
           /\ zeta.res.term.s2 = "sum_fourier"

\* C8 (as claimed): a singular generator matrix is signalled to the caller
\* of the entry point by the result NaN + NaN i.
C8_SingularSignalled ==
    (zeta.pc = "done" /\ ZetaDet = 0)
        => zeta.res.re = "nan" /\ zeta.res.im = "nan"

\* C18: no call through epsteinZeta or epsteinZetaReg, for any dimension
\* d >= 1, reads an element of the multi-index array alpha at an index outside
\* the array that the entry point supplied to the dispatcher.
C18_AlphaReadInsideArray ==
    zeta.entry \in {"epsteinZeta", "epsteinZetaReg"} => ~zeta.outside

\* the plain variant is in the sums branch and has assigned res
ZetaPlainSums ==
    zeta.pc = "branched" /\ zeta.variant = 0 /\ zeta.branch = "sums"

\* C17: in the plain branch the zero summand of the reciprocal sum,
\* G(d, d - nu, y'', lambda, .), is evaluated with the threshold of the
\* exponent d - nu, assignzArgBound(d - nu), the threshold of the other
\* reciprocal summands.
C17_ZeroSummandUsesReciprocalBound ==
    ZetaPlainSums =>
        zeta.res.term.nc.zArgBound
            = assignzArgBound(DimMinusNu(zeta.dim, zeta.nu))

\* C20: in the plain variant with nu = d, when the pole branch is not taken
\* the zero summand G(d, d - nu, y'', lambda) is never crandall_g's value at
\* the origin, -2 / (d - nu): no division by the zero exponent occurs.
C20_NoOriginLimitAtNuEqualDim ==
    (ZetaPlainSums /\ zeta.nu = Nu(2 * zeta.dim, 0)) =>
        ~zeta.res.term.nc.origin

\* the regularized variant is in the sums branch and has assigned res
ZetaRegSums ==
    zeta.pc = "branched" /\ zeta.variant = 1 /\ zeta.branch = "sums"

\* y' and y'' are vectors of finite numbers
ZetaYFinite ==
    \A i \in 0 .. zeta.dim - 1 :
        IsFinite(zeta.t.y_t1[i]) /\ IsFinite(zeta.t.y_t2[i])

\* some component of y' and y'' differs by at least 2^-32
ZetaYMoved ==
    \E i \in 0 .. zeta.dim - 1 :
        Bind(DAbs(DSub(zeta.t.y_t1[i], zeta.t.y_t2[i])), LAMBDA d :
            ~IsNaN(d) /\ ~BelowToolsEps(d))

\* C21: in the regularized branch the reciprocal sum is evaluated at the
\* projected y'' with its phase taken from the unprojected x', the zero
\* summand is G_reg at the unprojected y', and the correction
\* G(y'') exp(-2 pi i x'.y'') - G(y') exp(-2 pi i x'.y'), both G with the
\* threshold of d - nu, is added to the reciprocal sum if and only if some
\* component of y' and y'' differs by at least 2^-32.  Stated for y' and y''
\* without NaN or infinite components.
C21_RegularizedReciprocalSum ==
    (ZetaRegSums /\ ZetaYFinite) =>
        \E s2 \in {zeta.res.term.reci} :
            /\ s2.fn = "sum_fourier"
            /\ s2.x = zeta.t.x_t1 /\ s2.y = zeta.t.y_t2
            /\ s2.nc.fn = "crandall_gReg" /\ s2.nc.z = zeta.t.y_t1
            /\ s2.corrected <=> ZetaYMoved
            /\ IF ZetaYMoved
               THEN /\ s2.added =
                         <<[fn |-> "crandall_g", z |-> zeta.t.y_t2,
                            zArgBound |->
                                assignzArgBound(DimMinusNu(zeta.dim, zeta.nu)),
                            phase |-> dot(zeta.dim, zeta.t.x_t1, zeta.t.y_t2)]>>
                    /\ s2.subtracted =
                         <<[fn |-> "crandall_g", z |-> zeta.t.y_t1,
                            zArgBound |->
                                assignzArgBound(DimMinusNu(zeta.dim, zeta.nu)),
                            phase |-> dot(zeta.dim, zeta.t.x_t1, zeta.t.y_t1)]>>
               ELSE s2.added = <<>> /\ s2.subtracted = <<>>

\* a regularized call whose y was moved by the projection and whose x was
\* moved too has added the correction
C21_Witness ==
    /\ ZetaRegSums
    /\ ZetaYFinite
    /\ ZetaYMoved
    /\ zeta.t.x_t1 # zeta.t.x_t2
    /\ zeta.res.term.reci.corrected

\* res has been scaled and is about to be returned
ZetaScaled == zeta.pc = "return"

\* the log(mu^2) correction is the last operation on res
ZetaLogCorrected == zeta.res.term.op = "z + log(ms * ms) correction"

\* the largest k of nu = d + 2k among the exponents of the runs
MaxK == 2

\* the term of the sums branch inside the term of a scaled or corrected value
RECURSIVE SumsTerm(_)
SumsTerm(term) == IF term.op = "sums" THEN term ELSE SumsTerm(term.z)

ZetaReturning == zeta.pc \in {"return", "done"}

\* C11: every heap block allocated during a call of epsteinZetaInternal (the
\* buffers of vectorProj) is freed exactly once before the call returns, on
\* the delegating paths, in the special-case, the pole and the sum branch,
\* with and without re-projection: no free hits a block that is not live,
\* and at the return no block is live.
C11_BlocksFreedOnce ==
    /\ \A b \in Blocks : zeta.mem.heap[b] # "invalid"
    /\ ZetaReturning => \A b \in Blocks : zeta.mem.heap[b] \in {"none", "freed"}
    /\ zeta.pc \in {"idle", "internal"} => zeta.mem = NoMem

\* a delegated call in the pole branch has returned; x was projected again
\* (vt and vres freed), y was not (vt freed, vres never allocated)
C11_Witness ==
    /\ zeta.pc = "done" /\ zeta.depth = 1 /\ zeta.branch = "pole"
    /\ zeta.mem.heap[<<"x", "vt">>] = "freed"
    /\ zeta.mem.heap[<<"x", "vres">>] = "freed"
    /\ zeta.mem.heap[<<"y", "vt">>] = "freed"
    /\ zeta.mem.heap[<<"y", "vres">>] = "none"

-----------------------------------------------------------------------------
(* Concurrent calls.  The only variables of the library with static        *)
(* storage are the tables taylor of egf_qt and d of egf_ua_r (gamma.c);    *)
(* everything else a call touches is its own arguments and locals.  Two    *)
(* threads call egf_qt and egf_ua_r without synchronisation; a step is     *)
(* one pass of a loop that reads a table.  A number is kept as the list of *)
(* table entries it was computed from, in the order they were read.        *)

\* static double taylor[21]
TaylorLen == 21

\* static double d[27]
DLen == 27

\* the initial values of the tables: entry i holds its initializer
Statics ==
    [taylor |-> [i \in 0 .. TaylorLen - 1 |-> <<"taylor", i>>],
     d |-> [i \in 0 .. DLen - 1 |-> <<"d", i>>]]

Threads == {1, 2}

ThreadIdle == [pc |-> "idle", i |-> 0, val |-> <<>>]

InitThreads ==
    /\ thr = [statics |-> Statics, t |-> [tid \in Threads |-> ThreadIdle]]
    /\ inv = Idle /\ proj = Idle /\ zeta = Idle /\ loop = Idle /\ cut = Idle
    /\ gam = Idle /\ ker = Idle

\* a pass of the loop writes its partial sum to taylor[0] instead of u1
QtPassInPlace(st, loc) ==
    [statics |-> [st EXCEPT !.taylor[0] = <<"u1", loc.i>>],
     loc |-> [loc EXCEPT !.i = @ + 1,
                         !.pc = IF loc.i + 1 < TaylorLen THEN "qt" ELSE "done"]]

\* egf_qt, "for (int i = 1; i < 21; i++)": u1 += taylor[i] * f
QtPass(st, loc) ==
    [statics |-> st,
     loc |-> [loc EXCEPT !.val = Append(@, st.taylor[loc.i]), !.i = @ + 1,
                         !.pc = IF loc.i + 1 < TaylorLen THEN "qt" ELSE "done"]]

\* egf_ua_r, "for (int n = 23; n >= 0; n--)":
\* beta[n] = (double)(n + 2) * beta[n + 2] / a + d[n + 1]
UaPass(st, loc) ==
    [statics |-> st,
     loc |-> [loc EXCEPT !.val = Append(@, st.d[loc.i + 1]), !.i = @ - 1,
                         !.pc = IF loc.i > 0 THEN "ua" ELSE "done"]]

\* thread tid takes the step that leads to the statics and locals of next
ThreadStep(tid, next) ==
    /\ thr' = [statics |-> next.statics, t |-> [thr.t EXCEPT ![tid] = next.loc]]
    /\ UNCHANGED <<inv, proj, zeta, loop, cut, gam, ker>>

\* the call of egf_qt with |a| < 0.5: double u1 = taylor[0]
QtCall(tid) ==
    /\ thr.t[tid].pc = "idle"
    /\ ThreadStep(tid, [statics |-> thr.statics,
                        loc |-> [pc |-> "qt", i |-> 1,
                                 val |-> <<thr.statics.taylor[0]>>]])

QtLoop(tid) ==
    /\ thr.t[tid].pc = "qt"
    /\ ThreadStep(tid, QtPass(thr.statics, thr.t[tid]))

\* the call of egf_ua_r: beta[25] = d[26]; beta[24] = d[25]
UaCall(tid) ==
    /\ thr.t[tid].pc = "idle"
    /\ ThreadStep(tid, [statics |-> thr.statics,
                        loc |-> [pc |-> "ua", i |-> DLen - 4,
                                 val |-> <<thr.statics.d[DLen - 1],
                                           thr.statics.d[DLen - 2]>>]])

UaLoop(tid) ==
    /\ thr.t[tid].pc = "ua"
    /\ ThreadStep(tid, UaPass(thr.statics, thr.t[tid]))

\* the call returns and the thread may call again
ThreadReturn(tid) ==
    /\ thr.t[tid].pc = "done"
    /\ ThreadStep(tid, [statics |-> thr.statics, loc |-> ThreadIdle])

NextThreads ==
    \E tid \in Threads :
        \/ QtCall(tid)
        \/ QtLoop(tid)
        \/ UaCall(tid)
        \/ UaLoop(tid)
        \/ ThreadReturn(tid)

SpecThreads == InitThreads /\ [][NextThreads]_vars

\* what a call that runs alone reads: taylor[0 .. 20] in egf_qt, and
\* d[26], d[25], ..., d[1] in egf_ua_r
AloneValue(loc) ==
    IF loc.i = TaylorLen
    THEN [k \in 1 .. TaylorLen |-> Statics.taylor[k - 1]]
    ELSE [k \in 1 .. DLen - 1 |-> Statics.d[DLen - k]]

\* C10: no call writes a global or static variable, and whatever the
\* interleaving of the calls of the threads, each call returns the value it
\* returns when it runs alone.
C10_NoSharedMutableState ==
    /\ thr.statics = Statics
    /\ \A tid \in Threads :
          thr.t[tid].pc = "done" => thr.t[tid].val = AloneValue(thr.t[tid])

\* one call has returned while the call of the other thread is in its loop
C10_Witness ==
    /\ thr.t[1].pc = "done"
    /\ thr.t[1].i = TaylorLen
    /\ thr.t[2].pc = "qt"
    /\ thr.t[2].i > 1

-----------------------------------------------------------------------------
(* The summation loops of sum_real, sum_real_der, sum_fourier and          *)
(* sum_fourier_der (zeta.c lines 55-293): a linear index n, decoded into   *)
(* the counting vector zv.  loop holds two passes n1 < n2 of one loop.     *)

\* A long is kept as its eight bytes, byte 0 the lowest: the loops count
\* past what fits an int.
LongOf(i) == [k \in 0 .. 7 |-> IF k < 4 THEN (i \div 256^k) % 256 ELSE 0]

\* a + i for a small int i >= 0 (n++ is i = 1), modulo 2^64
RECURSIVE LongAddInt(_, _, _)
LongAddInt(a, i, k) ==
    IF k > 7 \/ i = 0 THEN a
    ELSE LongAddInt([a EXCEPT ![k] = (@ + i) % 256], (a[k] + i) \div 256, k + 1)

\* a * m for an int 0 <= m < 2^22, modulo 2^64
RECURSIVE LongMulInt(_, _, _, _)
LongMulInt(a, m, k, carry) ==
    IF k > 7 THEN a
    ELSE LongMulInt([a EXCEPT ![k] = (@ * m + carry) % 256], m, k + 1,
                    (a[k] * m + carry) \div 256)

\* a / d for an int 0 < d < 2^22, from the highest byte down
RECURSIVE LongDivInt(_, _, _, _)
LongDivInt(a, d, k, rem) ==
    IF k < 0 THEN a
    ELSE LongDivInt([a EXCEPT ![k] = (rem * 256 + @) \div d], d, k - 1,
                    (rem * 256 + a[k]) % d)

\* a < b
RECURSIVE LongLess(_, _, _)
LongLess(a, b, k) ==
    IF k < 0 THEN FALSE
    ELSE IF a[k] # b[k] THEN a[k] < b[k]
    ELSE LongLess(a, b, k - 1)

\* (int) of a long: the low 32 bits, read as two's complement
IntOfLong(a) ==
    a[0] + 256 * a[1] + 65536 * a[2]
        + 16777216 * (IF a[3] >= 128 THEN a[3] - 256 ELSE a[3])

\* a % b of C for b > 0: the remainder has the sign of a
CRem(a, b) == IF a >= 0 \/ a % b = 0 THEN a % b ELSE (a % b) - b

\* lines 61-66: totalCutoffs[k] is the product of the 2 * cutoffs[j] + 1 with
\* j < k, a long; for k = dim it is totalSummands
RECURSIVE totalCutoffs(_, _)
totalCutoffs(cutoffs, k) ==
    IF k = 0 THEN LongOf(1)
    ELSE LongMulInt(totalCutoffs(cutoffs, k - 1), 2 * cutoffs[k - 1] + 1, 0, 0)

totalSummands(dim, cutoffs) == totalCutoffs(cutoffs, dim)

\* line 184: long zeroIndex = (totalSummands - 1) / 2; totalSummands is odd
zeroIndex(dim, cutoffs) ==
    LongDivInt([totalSummands(dim, cutoffs) EXCEPT ![0] = @ - 1], 2, 7, 0)

\* lines 74-77: zv[k] = (((int)(n / totalCutoffs[k])) % (2 * cutoffs[k] + 1))
\* - cutoffs[k]; totalCutoffs[k] fits an int for the dimensions taken here
zv(dim, cutoffs, n) ==
    [k \in 0 .. dim - 1 |->
        CRem(IntOfLong(LongDivInt(n, IntOfLong(totalCutoffs(cutoffs, k)), 7, 0)),
             2 * cutoffs[k] + 1) - cutoffs[k]]

\* the product of the 2 * cutoffs[j] + 1 with j < k as a number, in ten bytes:
\* "totalSummands *= 2 * cutoffs[k] + 1" (line 65) is a signed
\* multiplication, undefined when the product does not fit a long
RECURSIVE WideMulInt(_, _, _, _)
WideMulInt(a, m, k, carry) ==
    IF k > 9 THEN a
    ELSE WideMulInt([a EXCEPT ![k] = (@ * m + carry) % 256], m, k + 1,
                    (a[k] * m + carry) \div 256)

RECURSIVE productOfFactors(_, _)
productOfFactors(cutoffs, k) ==
    IF k = 0 THEN [j \in 0 .. 9 |-> IF j = 0 THEN 1 ELSE 0]
    ELSE WideMulInt(productOfFactors(cutoffs, k - 1), 2 * cutoffs[k - 1] + 1,
                    0, 0)

\* the product is below 2^63
totalFitsLong(dim, cutoffs) ==
    \E w \in {productOfFactors(cutoffs, dim)} :
        w[9] = 0 /\ w[8] = 0 /\ w[7] < 128

MaxCutoff == 2

\* cutoffsReal of a lattice with a long and a short direction, as line 419
\* gives it to both k
WideCutoffs == [k \in 0 .. 1 |-> 32768]

\* cutoffsReal of the three-dimensional lattice with the generator
\* {1, 0, 0, 566796.7, 1, 0, 0, 0, 1}: floor(3.7 * 566797.7) = 2^21 - 1 for
\* every k, and (2^22 - 1)^3 is more than 2^63
HugeCutoffs == [k \in 0 .. 2 |-> 2097151]

LoopCutoffs(dim) ==
    [0 .. dim - 1 -> 0 .. MaxCutoff]
        \cup (IF dim = 2 THEN {WideCutoffs} ELSE {})

\* the passes looked at: all of a short loop; of a long one the first, the
\* last, the two around n = 2^31 and the one after zeroIndex
LoopPasses(dim, cutoffs) ==
    Bind(totalSummands(dim, cutoffs), LAMBDA total :
        IF LongLess(total, LongOf(65536), 7)
        THEN {LongOf(i) : i \in 0 .. IntOfLong(total) - 1}
        ELSE {LongOf(0), LongOf(2147483647),
              LongAddInt(LongOf(2147483647), 1, 0),
              LongAddInt(zeroIndex(dim, cutoffs), 1, 0),
              [total EXCEPT ![0] = @ - 1]})

LoopStart(dim, cutoffs, n1, n2) ==
    [pc |-> "call", dim |-> dim, cutoffs |-> cutoffs, n1 |-> n1, n2 |-> n2,
     fn |-> "none", zv1 |-> <<>>, zv2 |-> <<>>, skipped |-> <<>>,
     total |-> <<>>]

LoopInputs ==
    UNION {{LoopStart(dc[1], dc[2], n[1], n[2]) :
                n \in {q \in LoopPasses(dc[1], dc[2]) \X LoopPasses(dc[1], dc[2]) :
                          ~LongLess(q[2], q[1], 7)}} :
           dc \in UNION {{<<dim, c>> : c \in LoopCutoffs(dim)} : dim \in {1, 2}}}
        \cup {LoopStart(3, HugeCutoffs, LongOf(0), LongOf(0))}

InitLoops ==
    /\ loop \in LoopInputs
    /\ inv = Idle /\ proj = Idle /\ zeta = Idle /\ thr = Idle /\ cut = Idle
    /\ gam = Idle /\ ker = Idle

\* the loop of lines 73-88 (sum_real) and of lines 130-152 (sum_real_der):
\* for (long n = 0; n < totalSummands; n++)
RealLoop(fn) ==
    /\ loop.pc = "call"
    /\ totalFitsLong(loop.dim, loop.cutoffs)
    /\ LongLess(loop.n2, totalSummands(loop.dim, loop.cutoffs), 7)
    /\ loop' = [loop EXCEPT
                  !.pc = "summed", !.fn = fn,
                  !.total = totalSummands(loop.dim, loop.cutoffs),
                  !.zv1 = zv(loop.dim, loop.cutoffs, loop.n1),
                  !.zv2 = zv(loop.dim, loop.cutoffs, loop.n2)]
    /\ UNCHANGED <<inv, proj, zeta, thr, cut, gam, ker>>

\* the two loops of lines 190-220 (sum_fourier) and of lines 259-291
\* (sum_fourier_der): n from 0 to zeroIndex - 1 and from zeroIndex + 1 to
\* totalSummands - 1; the vector of the pass left out is kept in skipped
FourierLoops(fn) ==
    /\ loop.pc = "call"
    /\ totalFitsLong(loop.dim, loop.cutoffs)
    /\ LongLess(loop.n2, totalSummands(loop.dim, loop.cutoffs), 7)
    /\ \E z \in {zeroIndex(loop.dim, loop.cutoffs)} :
          /\ loop.n1 # z /\ loop.n2 # z
          /\ loop' = [loop EXCEPT
                        !.pc = "summed", !.fn = fn,
                        !.total = totalSummands(loop.dim, loop.cutoffs),
                        !.zv1 = zv(loop.dim, loop.cutoffs, loop.n1),
                        !.zv2 = zv(loop.dim, loop.cutoffs, loop.n2),
                        !.skipped = zv(loop.dim, loop.cutoffs, z)]
    /\ UNCHANGED <<inv, proj, zeta, thr, cut, gam, ker>>

\* lines 63-66 (and 120-123, 180-183, 248-251) when the product does not fit
\* a long: the multiplication wraps modulo 2^64 and the loops run with the
\* bound it leaves, none at all for a negative one, or the build traps on the
\* overflow (-ftrapv) and the call does not return
TotalOverflow ==
    /\ loop.pc = "call"
    /\ ~totalFitsLong(loop.dim, loop.cutoffs)
    /\ \E fn \in {"sum_real", "sum_real_der", "sum_fourier", "sum_fourier_der"} :
          \E outcome \in {"overflowed", "trapped"} :
              loop' = [loop EXCEPT
                         !.pc = outcome, !.fn = fn,
                         !.total = IF outcome = "trapped" THEN <<>>
                                   ELSE totalSummands(loop.dim, loop.cutoffs)]
    /\ UNCHANGED <<inv, proj, zeta, thr, cut, gam, ker>>

sum_real == RealLoop("sum_real")

sum_real_der == RealLoop("sum_real_der")

sum_fourier == FourierLoops("sum_fourier")

sum_fourier_der == FourierLoops("sum_fourier_der")

NextLoops ==
    \/ sum_real
    \/ sum_real_der
    \/ sum_fourier
    \/ sum_fourier_der
    \/ TotalOverflow

SpecLoops == InitLoops /\ [][NextLoops]_vars

\* v lies in the cuboid of the cutoffs: -cutoffs[k] <= v[k] <= cutoffs[k]
InCuboid(v, cutoffs) ==
    \A k \in DOMAIN cutoffs :
        cutoffs[k] >= 0 /\ v[k] <= cutoffs[k] /\ (v[k] >= 0 \/ -v[k] <= cutoffs[k])

LoopOf(fns) == loop.pc = "summed" /\ loop.fn \in fns

\* C14: the loop of sum_real and of sum_real_der visits every integer vector
\* of the cuboid exactly once and none outside: every pass decodes to a
\* vector of the cuboid and two passes never decode to the same vector (the
\* loop has as many passes as the cuboid has vectors, so that every vector
\* is then visited).
C14_RealLoopVisitsCuboidOnce ==
    LoopOf({"sum_real", "sum_real_der"}) =>
        /\ InCuboid(loop.zv1, loop.cutoffs)
        /\ InCuboid(loop.zv2, loop.cutoffs)
        /\ loop.n1 # loop.n2 => loop.zv1 # loop.zv2

\* C15: the two loops of sum_fourier and of sum_fourier_der visit every
\* non-zero integer vector of the cuboid exactly once and skip exactly the
\* zero vector: the pass left out decodes to zero, and the passes made
\* decode to non-zero vectors of the cuboid, different for different n.
C15_FourierLoopsSkipZero ==
    LoopOf({"sum_fourier", "sum_fourier_der"}) =>
        /\ loop.skipped = [k \in 0 .. loop.dim - 1 |-> 0]
        /\ \A v \in {loop.zv1, loop.zv2} :
              InCuboid(v, loop.cutoffs) /\ v # loop.skipped
        /\ loop.n1 # loop.n2 => loop.zv1 # loop.zv2

-----------------------------------------------------------------------------
(* The cutoffs of the two sums (zeta.c lines 404-422) and the lattice      *)
(* points the real sum has to reach.  cut holds a generator matrix, a      *)
(* shift x and an integer vector n.                                        *)

\* G_BOUND = 3.2
G_BOUND == DRat(16, 5)

\* floor of a finite number of decimal exponent 0, as an int
DFloor(a) == a[1] \div a[2]

\* "int c = floor(a)" for a double that floor(a) does not take to an int, NaN
\* or a number from 2^31 on: the conversion is undefined.  x86-64 stores
\* INT_MIN, other targets saturate at INT_MAX or store 0 for NaN.
IntOutOfRange == {-2147483647 - 1, 0, 2147483647}

\* the int that "cutoffsReal[k] = floor(a)" stores for a >= 0 or NaN, with u
\* the outcome of the undefined conversion.  (n / d) * 10^-k is below 1 for
\* k >= 10 and is 10^10 > 2^31 or more for k <= -10 and n >= d.
floorToInt(a, u) ==
    IF ~IsFinite(a) THEN u
    ELSE IF a[3] = 0 THEN DFloor(a)
    ELSE IF a[3] >= 10 THEN 0
    ELSE IF a[3] > 0 THEN DFloor(a) \div Pow10(a[3])
    ELSE IF a[3] <= -10 /\ a[1] >= a[2] THEN u
    ELSE DFloor(<<a[1] * Pow10(-a[3]), a[2], 0>>)

\* tools.c lines 166-181: the sum of the |m[i * dim + j]| of row i
RECURSIVE RowAbsSum(_, _, _, _, _)
RowAbsSum(dim, m, i, j, acc) ==
    IF j >= dim THEN acc
    ELSE RowAbsSum(dim, m, i, j + 1, DAdd(acc, DAbs(m[i * dim + j])))

\* lines 171-179: for the rows i from 1 on, "if (w > r) r = w"
RECURSIVE InfNormFrom(_, _, _, _)
InfNormFrom(dim, m, i, r) ==
    IF i >= dim THEN r
    ELSE InfNormFrom(dim, m, i + 1,
                     IF DGt(RowAbsSum(dim, m, i, 0, DZero), r)
                     THEN RowAbsSum(dim, m, i, 0, DZero) ELSE r)

\* r starts as the sum of row 0 (lines 167-170)
inf_norm(dim, m) == InfNormFrom(dim, m, 1, RowAbsSum(dim, m, 0, 0, DZero))

\* lines 405-422, with cutoff_id = G_BOUND + 0.5 and u the int stored by a
\* conversion that is undefined
SetCutoffs(dim, t, u) ==
    Bind(DAdd(G_BOUND, DHalf), LAMBDA cutoff_id :
        IF t.isDiagonal
        THEN [cutoffsReal |->
                 [k \in 0 .. dim - 1 |->
                     floorToInt(DDiv(cutoff_id, DAbs(t.m_real[dim * k + k])), u)],
              cutoffsFourier |->
                 [k \in 0 .. dim - 1 |->
                     floorToInt(DMul(cutoff_id, DAbs(t.m_real[dim * k + k])), u)]]
        ELSE [cutoffsReal |->
                 [k \in 0 .. dim - 1 |->
                     floorToInt(DMul(cutoff_id, inf_norm(dim, t.m_fourier)), u)],
              cutoffsFourier |->
                 [k \in 0 .. dim - 1 |->
                     floorToInt(DMul(cutoff_id, inf_norm(dim, t.m_real)), u)]])

\* lines 78-82 of sum_real: lv = m * zv (matrix_intVector), then
\* lv[i] = lv[i] - x[i]; the vector crandall_g gets
SummandVector(dim, m, zvec, x) ==
    [i \in 0 .. dim - 1 |->
        DSub(MatVecAcc(dim, m, [k \in 0 .. dim - 1 |-> DInt(zvec[k])], i, 0, DZero),
             x[i])]

\* generator matrices of determinant 1, 4 and 16 in dimension 2: after the
\* scaling by ms the diagonal ones are the identity, diag(2, 1 / 2),
\* diag(1 / 2, 2) and diag(4, 1 / 4)
CutLattices ==
    { Mat(2, <<1, 0, 0, 1>>), Mat(2, <<4, 0, 0, 1>>), Mat(2, <<1, 0, 0, 4>>),
      Mat(2, <<16, 0, 0, 1>>), Mat(2, <<1, 1, 0, 1>>), Mat(2, <<1, 0, 1, 1>>),
      Mat(2, <<2, 1, 0, 2>>) }

\* the components of the shift x, in fifths
CutShifts == {DRat(n, 5) : n \in {-9, -5, -2, 0, 2, 5, 9}}

\* diag(1e-10, 1e10), of determinant 1
Stretched ==
    [idx \in 0 .. 3 |->
        IF idx = 0 THEN DSci(1, 1, 10)
        ELSE IF idx = 3 THEN DSci(1, 1, -10) ELSE DZero]

\* the generator {1, 2, 0, 1} of the integer lattice, and diag(1e-10, 1e10)
\* with the shift 0
CutWideInputs ==
    {Mat(2, <<1, 2, 0, 1>>)} \X [0 .. 1 -> CutShifts]
        \cup {<<Stretched, ZeroVec(2)>>}

\* the integer vectors n have |n[k]| <= MaxN
MaxN == 4

CutStart(a, x, n) ==
    [pc |-> "call", dim |-> 2, a |-> a, x |-> x, n |-> n,
     cutoffsReal |-> <<>>, cutoffsFourier |-> <<>>, x_t2 |-> <<>>, z |-> <<>>,
     m_real |-> <<>>, m_fourier |-> <<>>]

CutInputs ==
    {CutStart(a, x, n) :
        a \in CutLattices,
        x \in [0 .. 1 -> CutShifts],
        n \in [0 .. 1 -> (-MaxN) .. MaxN]}
    \cup {CutStart(ax[1], ax[2], n) :
              ax \in CutWideInputs, n \in [0 .. 1 -> (-MaxN) .. MaxN]}

InitCutoffs ==
    /\ cut \in CutInputs
    /\ inv = Idle /\ proj = Idle /\ zeta = Idle /\ thr = Idle /\ loop = Idle
    /\ gam = Idle /\ ker = Idle

\* lines 371-422 for the generator cut.a and the shift cut.x (y = 0), and the
\* vector z = A' n - x'' of the summand of sum_real for zv = n
ChooseCutoffs ==
    /\ cut.pc = "call"
    /\ \E t \in {TransformAndProject(cut.dim, cut.a, cut.x, ZeroVec(cut.dim))} :
       \E u \in IntOutOfRange :
       \E c \in {SetCutoffs(cut.dim, t, u)} :
          cut' = [cut EXCEPT
                    !.pc = "set",
                    !.m_real = t.m_real,
                    !.m_fourier = t.m_fourier,
                    !.cutoffsReal = c.cutoffsReal,
                    !.cutoffsFourier = c.cutoffsFourier,
                    !.x_t2 = t.x_t2,
                    !.z = SummandVector(cut.dim, t.m_real, cut.n, t.x_t2)]
    /\ UNCHANGED <<inv, proj, zeta, thr, loop, gam, ker>>

NextCutoffs == ChooseCutoffs

SpecCutoffs == InitCutoffs /\ [][NextCutoffs]_vars

\* C19: the real-space cuboid of the cutoff rule contains every integer
\* vector n whose lattice point A' n lies within Euclidean distance
\* G_BOUND = 3.2 of the projected shift x'': no such summand is left out of
\* the real sum.
C19_CuboidHoldsPointsWithinBound ==
    (cut.pc = "set"
        /\ DLe(dot(cut.dim, cut.z, cut.z), DMul(G_BOUND, G_BOUND)))
        => InCuboid(cut.n, cut.cutoffsReal)

\* the maximum absolute row sum of a matrix, NaN if a row sum is NaN
MaxRowSum(dim, m) ==
    IF \E i \in 0 .. dim - 1 : IsNaN(RowAbsSum(dim, m, i, 0, DZero)) THEN DNaN
    ELSE CHOOSE r \in {RowAbsSum(dim, m, i, 0, DZero) : i \in 0 .. dim - 1} :
            \A i \in 0 .. dim - 1 : DLe(RowAbsSum(dim, m, i, 0, DZero), r)

\* the int c is floor(a): a is a number whose floor is an int, and c is it
IsFloorOf(c, a) ==
    /\ IsFinite(a)
    /\ floorToInt(a, 0) = floorToInt(a, 1)
    /\ c = floorToInt(a, 0)

\* C24: if every off-diagonal entry of A is exactly zero,
\* c_k(real) = floor(3.7 / |A'_kk|) and c_k(reciprocal) = floor(3.7 * |A'_kk|)
\* per axis; otherwise every axis uses c(real) = floor(3.7 * inf_norm(B'))
\* and c(reciprocal) = floor(3.7 * inf_norm(A')), with inf_norm the maximum
\* absolute row sum; all half-widths are >= 0.
C24_CutoffRule ==
    cut.pc = "set" =>
        \A k \in 0 .. cut.dim - 1 :
            /\ cut.cutoffsReal[k] >= 0 /\ cut.cutoffsFourier[k] >= 0
            /\ IF IsDiagonal(cut.dim, cut.a)
               THEN /\ IsFloorOf(cut.cutoffsReal[k],
                                 DDiv(DRat(37, 10),
                                      DAbs(cut.m_real[cut.dim * k + k])))
                    /\ IsFloorOf(cut.cutoffsFourier[k],
                                 DMul(DRat(37, 10),
                                      DAbs(cut.m_real[cut.dim * k + k])))
               ELSE /\ IsFloorOf(cut.cutoffsReal[k],
                                 DMul(DRat(37, 10),
                                      MaxRowSum(cut.dim, cut.m_fourier)))
                    /\ IsFloorOf(cut.cutoffsFourier[k],
                                 DMul(DRat(37, 10),
                                      MaxRowSum(cut.dim, cut.m_real)))


-----------------------------------------------------------------------------
(* gamma.c: the incomplete gamma functions egf_ugamma and egf_gammaStar,   *)
(* the choice of the algorithm by egf_domain and egf_ldomain, and the      *)
(* loops of the algorithms.  The exit tests of egf_pt and egf_cf compare   *)
(* rounded partial sums with EGF_EPS: their outcome is left open.          *)

\* a <= alpha for alpha = x if x >= 0.5 and log(0.5) / log(0.5 * x) else
\* (lines 39-45).  For 0 < x < 0.5 alpha lies between 0 and 1 / 2, and
\* a = p / q is at most alpha when (x / 2)^p >= (1 / 2)^q.  log(0) = -inf
\* gives alpha = 0, and a negative x gives the alpha NaN.
AtMostAlpha(a, x) ==
    IF ~IsFinite(a) \/ ~IsFinite(x) THEN ~IsNaN(a) /\ ~IsNaN(x) /\ DLe(a, x)
    ELSE IF DGe(x, DHalf) THEN DLe(a, x)
    ELSE IF DLt(x, DZero) THEN FALSE
    ELSE IF IsZero(x) \/ DLe(a, DZero) THEN DLe(a, DZero)
    ELSE IF DGe(a, DHalf) THEN FALSE
    ELSE IntPow(x[1], a[1]) * IntPow(2, a[2]) >= IntPow(2 * x[2], a[1])

\* egf_domain with the first return of egf_ldomain
egf_domainOfGammaStar(a, x) ==
    IF AtMostAlpha(a, x)
    THEN IF DLe(x, DRat(3, 2))
            /\ (DGe(a, DNeg(DHalf))
                \/ (DGe(a, DRat(-3, 4)) /\ DLe(x, DRat(1, 16384))))
         THEN "pt"
         ELSE IF DLe(x, DRat(3, 2)) THEN "rek"
         ELSE IF DGe(a, DInt(12)) /\ DGe(a, DDiv(x, DRat(47, 20))) THEN "ua"
         ELSE "cf"
    ELSE IF DGe(a, DInt(12)) /\ DGe(x, DMul(DRat(3, 10), a)) THEN "ua"
    ELSE "pt"

\* gamma.c lines 38-61
egf_domain(a, x) ==
    IF AtMostAlpha(a, x)
    THEN IF DLe(x, DRat(3, 2)) /\ DGe(a, DNeg(DHalf)) THEN "qt"
         ELSE IF DLe(x, DRat(3, 2)) THEN "rek"
         ELSE IF DGe(a, DInt(12)) /\ DGe(a, DDiv(x, DRat(47, 20))) THEN "ua"
         ELSE "cf"
    ELSE IF DGe(a, DInt(12)) /\ DGe(x, DMul(DRat(3, 10), a)) THEN "ua"
    ELSE "pt"

\* egf_ldomain that returns what egf_domain returns
egf_ldomainAsDomain(a, x) == egf_domain(a, x)

\* gamma.c lines 63-86; ldexp(2, -15) = 1 / 16384
egf_ldomain(a, x) ==
    IF AtMostAlpha(a, x)
    THEN IF DLe(x, DRat(3, 2))
            /\ (DGe(a, DNeg(DHalf))
                \/ (DGe(a, DRat(-3, 4)) /\ DLe(x, DRat(1, 16384))))
         THEN "pt"
         ELSE IF DLe(x, DRat(3, 2)) THEN "rek"
         ELSE IF DGe(a, DInt(12)) /\ DGe(a, DDiv(x, DRat(47, 20))) THEN "ua"
         ELSE "cf"
    ELSE IF DGe(a, DInt(12)) /\ DGe(x, DMul(DRat(3, 10), a)) THEN "ua"
    ELSE "pt"

\* "a <= 0.1 && fabs(a - nearbyint(a)) < EGF_EPS" for a number a whose
\* distance to an integer is 0 or more than EGF_EPS = 2^-54
NearNonPositiveInteger(a) == DLe(a, DRat(1, 10)) /\ IsInteger(a)

\* the switch of egf_ugamma (lines 270-286): the function called for the
\* value g of the enum, "none" if no case is written for it
ugammaCase(g) ==
    CASE g = "pt" -> "egf_pt"
      [] g = "qt" -> "egf_qt"
      [] g = "cf" -> "egf_cf"
      [] g = "ua" -> "egf_ua"
      [] g = "rek" -> "egf_rek"
      [] OTHER -> "none"

\* the switch of egf_gammaStar (lines 305-328); "pow" stands for the cases
\* that return pow(x, -a) without a call
gammaStarCase(g, a) ==
    CASE g \in {"pt", "qt"} -> "egf_pt"
      [] g = "cf" -> IF NearNonPositiveInteger(a) THEN "pow" ELSE "egf_cf"
      [] g = "ua" -> "egf_ua"
      [] g = "rek" -> IF NearNonPositiveInteger(a) THEN "pow" ELSE "egf_rek"
      [] OTHER -> "none"

\* the limits of the loops of egf_pt (line 98) and egf_cf (line 184)
PT_TERMS == 80
CF_LEVELS == 200

\* a in eighths: -3, -1, -3/4, -5/8, -1/2, -1/4, 0, 1/8, 1/4, 1/2, 1, 3/2, 2,
\* 5, 12, 13, 20; and NaN
GammaAs ==
    {DRat(n, 8) : n \in {-24, -8, -6, -5, -4, -2, 0, 1, 2, 4, 8, 12, 16, 40,
                         96, 104, 160}} \cup {DNaN}

\* x: 0, 1e-5, 2^-14, 0.1, 1/4, 1/2, 1, 3/2, 2, 3.6, 3.9, 5, 28.2, 30, 50; NaN
GammaXs ==
    {DZero, DRat(1, 100000), DRat(1, 16384), DRat(1, 10), DRat(1, 4), DHalf,
     DOne, DRat(3, 2), DInt(2), DRat(18, 5), DRat(39, 10), DInt(5),
     DRat(141, 5), DInt(30), DInt(50), DNaN}

GammaStart(a, x) ==
    [pc |-> "idle", a |-> a, x |-> x, fn |-> "none", g |-> "none",
     r |-> "none", eval |-> "none", i |-> 0, m |-> 0]

InitGamma ==
    /\ gam \in {GammaStart(a, x) : a \in GammaAs, x \in GammaXs}
    /\ inv = Idle /\ proj = Idle /\ zeta = Idle /\ thr = Idle /\ loop = Idle
    /\ cut = Idle /\ ker = Idle

\* egf_ugamma, lines 268-269: double r = NAN; enum dom g = egf_domain(a, x)
egf_ugamma ==
    /\ gam.pc = "idle"
    /\ gam' = [gam EXCEPT !.pc = "switch", !.fn = "egf_ugamma", !.r = "NAN",
                          !.g = egf_domain(gam.a, gam.x)]
    /\ UNCHANGED <<inv, proj, zeta, thr, loop, cut, ker>>

\* egf_gammaStar, lines 297-304: the returns for |x| < EGF_EPS, else
\* enum dom g = egf_ldomain(a, x)
egf_gammaStar ==
    /\ gam.pc = "idle"
    /\ gam' = IF IsZero(gam.x)
              THEN [gam EXCEPT !.pc = "done", !.fn = "egf_gammaStar",
                               !.r = IF NearNonPositiveInteger(gam.a)
                                     THEN "0" ELSE "1. / tgamma(a + 1)"]
              ELSE [gam EXCEPT !.pc = "switch", !.fn = "egf_gammaStar",
                               !.r = "NAN",
                               !.g = egf_ldomain(gam.a, gam.x)]
    /\ UNCHANGED <<inv, proj, zeta, thr, loop, cut, ker>>

\* the case of the switch: a call of egf_pt, egf_cf or egf_rek starts its
\* loop (egf_rek: int m = (int)(0.5 - a), line 166); egf_qt and egf_ua have
\* loops of fixed length and return; without a case r keeps its value
GammaSwitch ==
    /\ gam.pc = "switch"
    /\ \E c \in {IF gam.fn = "egf_ugamma" THEN ugammaCase(gam.g)
                 ELSE gammaStarCase(gam.g, gam.a)} :
          gam' = IF c \in {"egf_pt", "egf_cf"}
                 THEN [gam EXCEPT !.pc = "loop", !.eval = c, !.i = 1]
                 ELSE IF c = "egf_rek"
                 THEN [gam EXCEPT !.pc = "loop", !.eval = c, !.i = 1,
                                  !.m = -DFloor(DSub(gam.a, DHalf))]
                 ELSE IF c = "none" THEN [gam EXCEPT !.pc = "done"]
                 ELSE [gam EXCEPT !.pc = "done", !.eval = c, !.r = c]
    /\ UNCHANGED <<inv, proj, zeta, thr, loop, cut, ker>>

\* one pass of "for (int i = 1; i < 80 && fabs(add / sn) >= EGF_EPS; i++)"
PtPass ==
    /\ gam.pc = "loop" /\ gam.eval = "egf_pt"
    /\ gam.i < PT_TERMS
    /\ gam' = [gam EXCEPT !.i = @ + 1]
    /\ UNCHANGED <<inv, proj, zeta, thr, loop, cut, ker>>

\* the loop of egf_pt ends: i = 80, or the term is below EGF_EPS
PtReturn ==
    /\ gam.pc = "loop" /\ gam.eval = "egf_pt"
    /\ gam' = [gam EXCEPT !.pc = "done", !.r = "egf_pt"]
    /\ UNCHANGED <<inv, proj, zeta, thr, loop, cut, ker>>

\* one pass of "for (int k = 1; k <= 200 && fabs(rp / s) >= EGF_EPS; k++)"
CfPass ==
    /\ gam.pc = "loop" /\ gam.eval = "egf_cf"
    /\ gam.i <= CF_LEVELS
    /\ gam' = [gam EXCEPT !.i = @ + 1]
    /\ UNCHANGED <<inv, proj, zeta, thr, loop, cut, ker>>

CfReturn ==
    /\ gam.pc = "loop" /\ gam.eval = "egf_cf"
    /\ gam' = [gam EXCEPT !.pc = "done", !.r = "egf_cf"]
    /\ UNCHANGED <<inv, proj, zeta, thr, loop, cut, ker>>

\* one pass of "for (int n = 1; n <= m; n++)" of egf_rek
RekPass ==
    /\ gam.pc = "loop" /\ gam.eval = "egf_rek"
    /\ gam.i <= gam.m
    /\ gam' = [gam EXCEPT !.i = @ + 1]
    /\ UNCHANGED <<inv, proj, zeta, thr, loop, cut, ker>>

RekReturn ==
    /\ gam.pc = "loop" /\ gam.eval = "egf_rek"
    /\ gam.i > gam.m
    /\ gam' = [gam EXCEPT !.pc = "done", !.r = "egf_rek"]
    /\ UNCHANGED <<inv, proj, zeta, thr, loop, cut, ker>>

NextGamma ==
    \/ egf_ugamma
    \/ egf_gammaStar
    \/ GammaSwitch
    \/ PtPass
    \/ PtReturn
    \/ CfPass
    \/ CfReturn
    \/ RekPass
    \/ RekReturn

SpecGamma == InitGamma /\ [][NextGamma]_vars

\* the table of the dispatcher with the algorithm "corner" for a <= alpha,
\* x <= 1.5 and a >= -1/2
DomainTable(a, x, corner) ==
    IF AtMostAlpha(a, x)
    THEN IF DLe(x, DRat(3, 2)) /\ DGe(a, DNeg(DHalf)) THEN corner
         ELSE IF DLe(x, DRat(3, 2)) /\ DLt(a, DNeg(DHalf)) THEN "rek"
         ELSE IF DGe(a, DInt(12)) /\ DGe(a, DDiv(x, DRat(47, 20))) THEN "ua"
         ELSE "cf"
    ELSE IF DGe(a, DInt(12)) /\ DGe(x, DMul(DRat(3, 10), a)) THEN "ua"
    ELSE "pt"

\* egf_ugamma has called egf_domain
GammaUpperDispatched == gam.fn = "egf_ugamma" /\ gam.pc # "idle"

\* C25 (as claimed): egf_domain(a, x) selects the Taylor series PT whenever
\* a <= alpha, x <= 1.5 and a >= -1/2, and otherwise follows the table: REK
\* for a <= alpha, x <= 1.5, a < -1/2; UA for a >= 12 with a >= x / 2.35
\* (a <= alpha) or x >= 0.3 a (a > alpha); CF for the rest of a <= alpha; PT
\* for the rest of a > alpha.
C25_DomainTableWithPT ==
    GammaUpperDispatched => gam.g = DomainTable(gam.a, gam.x, "pt")

\* C25 (amended): egf_domain(a, x) selects Gautschi's QT whenever
\* a <= alpha, x <= 1.5 and a >= -1/2, and otherwise follows the table.
C25_DomainTableWithQT ==
    GammaUpperDispatched => gam.g = DomainTable(gam.a, gam.x, "qt")

\* egf_ugamma has returned from egf_qt, for an a between 0 and alpha and an
\* x below 1/2
C25_Witness ==
    /\ gam.pc = "done" /\ gam.fn = "egf_ugamma"
    /\ gam.g = "qt" /\ gam.r = "egf_qt"
    /\ DGt(gam.a, DZero) /\ DLt(gam.x, DHalf) /\ DGt(gam.x, DZero)

\* C26: for every input (a, x) the dispatchers egf_domain and egf_ldomain
\* select exactly one of the five regimes and the evaluators handle each of
\* them, so egf_ugamma and egf_gammaStar never return their initial NaN
\* default; egf_ldomain never selects QT.
C26_EveryRegimeHandled ==
    /\ gam.pc \in {"switch", "loop", "done"} /\ gam.g # "none"
          => gam.g \in {"pt", "qt", "cf", "ua", "rek"}
    /\ gam.pc = "done" => gam.r # "NAN"
    /\ gam.fn = "egf_gammaStar" => gam.g # "qt"

\* egf_gammaStar has returned from egf_pt for an input for which egf_domain
\* selects QT
C26_Witness ==
    /\ gam.pc = "done" /\ gam.fn = "egf_gammaStar"
    /\ gam.g = "pt" /\ gam.r = "egf_pt"
    /\ egf_domain(gam.a, gam.x) = "qt"

-----------------------------------------------------------------------------
(* crandall.c: the functions assignzArgBound, crandall_g and crandall_gReg *)
(* on their own, for exponents around every row of the table of            *)
(* assignzArgBound and arguments zArgument = dot(dim, z, z) * M_PI *       *)
(* prefactor * prefactor around every threshold.  The value returned is    *)
(* named by the expression of the return statement.                        *)

\* the number an expression returned by assignzArgBound stands for, to five
\* digits; pow(10, 16) is written (1 / 10000) * 10^20
BoundValue(b) ==
    CASE b = "M_PI * 2.6 * 2.6" -> DRat(21237, 1000)
      [] b = "M_PI * 2.99 * 2.99" -> DRat(28086, 1000)
      [] b = "M_PI * 3.15 * 3.15" -> DRat(31172, 1000)
      [] b = "M_PI * 3.35 * 3.35" -> DRat(35257, 1000)
      [] b = "M_PI * 3.5 * 3.5" -> DRat(38485, 1000)
      [] OTHER -> DSci(1, 10000, -20)

\* crandall_g without the value at the origin
crandall_gRegimeAwayFromOrigin(nu, w, zArgBound) ==
    IF DGt(w, BoundValue(zArgBound))
    THEN "exp(-zArgument) * (-2 + 2 * zArgument + nu) / (2 * zArgument * zArgument)"
    ELSE "egf_ugamma(nu / 2, zArgument) / pow(zArgument, nu / 2)"

\* src/src/crandall.c lines 83-90: the return statement that crandall_g
\* takes for zArgument = w
crandall_gRegime(nu, w, zArgBound) ==
    IF DLt(w, OriginBound) THEN "-2. / nu"
    ELSE IF DGt(w, BoundValue(zArgBound))
    THEN "exp(-zArgument) * (-2 + 2 * zArgument + nu) / (2 * zArgument * zArgument)"
    ELSE "egf_ugamma(nu / 2, zArgument) / pow(zArgument, nu / 2)"

\* taylorCutoff = 0.1 * 0.1 * M_PI
TaylorCutoff == DMul(DRat(1, 100), Pi)

\* src/C/src/crandall.c lines 39-58: the value of gReg before the
\* subtraction of line 61
gRegExpansion(s, arg) ==
    IF NuIsZero(s) /\ DLt(arg, TaylorCutoff) THEN "taylorCoeffs"
    ELSE IF IsZero(arg) THEN "1 / k"
    ELSE "pow(arg, k) * (egf_ugamma(-k, arg) + (pow(-1, k) / tgamma(k + 1)) * log(arg))"

\* exponents h / 2 + off * 2^-32: every half from -6 to 5, and the halves next
\* to -601, -600, -70, 7, 8, 40 and 80
KerHalves ==
    (-12 .. 10) \cup {-1202, -1200, -1199, -141, -140, -139, 14, 16, 17,
                      79, 80, 81, 159, 160, 161}
KerOffsets == {-5, -4, -3, -1, 0, 1, 3, 4, 5}

\* zArgument: 0, 1e-27, 3e-19, 0.0314, 0.0315, 1, 21.2, 21.3, 28, 28.1, 31.1,
\* 31.2, 35.2, 35.3, 38.4, 38.5, 5e15, 1e17, infinity and NaN
KerArgs ==
    {DZero, DSci(1, 1, 27), DSci(300000000, 1, 27), DRat(314, 10000),
     DRat(315, 10000), DOne, DRat(212, 10), DRat(213, 10), DInt(28),
     DRat(281, 10), DRat(311, 10), DRat(312, 10), DRat(352, 10),
     DRat(353, 10), DRat(384, 10), DRat(385, 10), DSci(1, 20000, -20),
     DSci(1, 1000, -20), DInf, DNaN}

KerStart(nu, w) ==
    [pc |-> "idle", nu |-> nu, w |-> w, fn |-> "none", k |-> 0,
     bound |-> "none", r |-> "none", sub |-> "none"]

InitKernel ==
    /\ ker \in {KerStart(Nu(h, off), w) :
                    h \in KerHalves, off \in KerOffsets, w \in KerArgs}
    /\ inv = Idle /\ proj = Idle /\ zeta = Idle /\ thr = Idle /\ loop = Idle
    /\ cut = Idle /\ gam = Idle

\* a call of assignzArgBound(nu)
AssignzArgBound ==
    /\ ker.pc = "idle"
    /\ ker' = [ker EXCEPT !.pc = "done", !.fn = "assignzArgBound",
                          !.r = assignzArgBound(ker.nu)]
    /\ UNCHANGED <<inv, proj, zeta, thr, loop, cut, gam>>

\* a call of crandall_g with the threshold of its exponent, as sum_fourier
\* and the dispatcher pass it
crandall_g ==
    /\ ker.pc = "idle"
    /\ \E b \in {assignzArgBound(ker.nu)} :
          ker' = [ker EXCEPT !.pc = "done", !.fn = "crandall_g", !.bound = b,
                             !.r = crandall_gRegime(ker.nu, ker.w, b)]
    /\ UNCHANGED <<inv, proj, zeta, thr, loop, cut, gam>>

\* crandall_gReg(dim, s, z, prefactor) with s = ker.nu, lines 80-87 of
\* src/C/src/crandall.c
crandall_gReg ==
    /\ ker.pc = "idle"
    /\ ker' = IF crandall_gRegExpands(ker.nu)
              THEN [ker EXCEPT !.pc = "expansion", !.fn = "crandall_gReg",
                               !.k = gRegK(ker.nu)]
              ELSE [ker EXCEPT !.pc = "done", !.fn = "crandall_gReg",
                               !.k = gRegK(ker.nu),
                               !.r = "-tgamma(s / 2) * egf_gammaStar(s / 2, zArgument)"]
    /\ UNCHANGED <<inv, proj, zeta, thr, loop, cut, gam>>

\* crandall_gReg_nuequalsdimplus2k, lines 36-58
crandall_gReg_nuequalsdimplus2k ==
    /\ ker.pc = "expansion"
    /\ ker' = [ker EXCEPT !.pc = "subtract",
                          !.r = gRegExpansion(ker.nu, ker.w)]
    /\ UNCHANGED <<inv, proj, zeta, thr, loop, cut, gam>>

\* line 61: gReg -= pow(arg, k) * log(lambda * lambda)
SubtractLogLambda ==
    /\ ker.pc = "subtract"
    /\ ker' = [ker EXCEPT !.pc = "done",
                          !.sub = "pow(arg, k) * log(lambda * lambda)"]
    /\ UNCHANGED <<inv, proj, zeta, thr, loop, cut, gam>>

NextKernel ==
    \/ AssignzArgBound
    \/ crandall_g
    \/ crandall_gReg
    \/ crandall_gReg_nuequalsdimplus2k
    \/ SubtractLogLambda

SpecKernel == InitKernel /\ [][NextKernel]_vars

\* s is an even integer that is not positive
NonPositiveEven(s) == s.off = 0 /\ s.h % 4 = 0 /\ s.h <= 0

KerReturned(fn) == ker.pc = "done" /\ ker.fn = fn

NuWithinEps(nu, c) == nu.h = 2 * c /\ -EPS < nu.off /\ nu.off < EPS

\* C28: assignzArgBound(nu) returns the value of the first matching row of
\* the table: pi * 2.6^2 if nu is within 2^-30 of 2 or of 4; pi * 2.99^2 if
\* 1.6 < nu < 4.4; pi * 3.15^2 if -3 < nu < 8; pi * 3.35^2 if -70 < nu < 40;
\* pi * 3.5^2 if -600 < nu < 80; 10^16 otherwise; every nu gets exactly one
\* value.
C28_ThresholdTable ==
    KerReturned("assignzArgBound") =>
        /\ ker.r \in {"M_PI * 2.6 * 2.6", "M_PI * 2.99 * 2.99",
                      "M_PI * 3.15 * 3.15", "M_PI * 3.35 * 3.35",
                      "M_PI * 3.5 * 3.5", "pow(10, 16)"}
        /\ ker.r = "M_PI * 2.6 * 2.6"
              <=> NuWithinEps(ker.nu, 2) \/ NuWithinEps(ker.nu, 4)
        /\ ker.r = "M_PI * 2.99 * 2.99"
              <=> /\ ~(NuWithinEps(ker.nu, 2) \/ NuWithinEps(ker.nu, 4))
                  /\ NuBetween(ker.nu, 16, 44)
        /\ ker.r = "M_PI * 3.15 * 3.15"
              <=> ~NuBetween(ker.nu, 16, 44) /\ NuBetween(ker.nu, -30, 80)
        /\ ker.r = "M_PI * 3.35 * 3.35"
              <=> ~NuBetween(ker.nu, -30, 80) /\ NuBetween(ker.nu, -700, 400)
        /\ ker.r = "M_PI * 3.5 * 3.5"
              <=> /\ ~NuBetween(ker.nu, -700, 400)
                  /\ NuBetween(ker.nu, -6000, 800)
        /\ ker.r = "pow(10, 16)"
              <=> ~NuBetween(ker.nu, -6000, 800)

\* assignzArgBound has returned the second row for a nu that is EPS above 4
C28_Witness ==
    /\ KerReturned("assignzArgBound")
    /\ ker.nu = Nu(8, EPS)
    /\ ker.r = "M_PI * 2.99 * 2.99"

\* C29: crandall_g selects exactly one of three regimes by
\* w = pi * prefactor^2 * |z|^2: w < 2^-62 returns -2 / nu; w > zArgBound
\* returns exp(-w) * (-2 + 2 w + nu) / (2 w^2); otherwise it returns
\* ugamma(nu / 2, w) / w^(nu / 2); every threshold produced by
\* assignzArgBound exceeds 2^-62, so the first two regimes never overlap.
C29_ThreeRegimes ==
    KerReturned("crandall_g") =>
        /\ DGt(BoundValue(ker.bound), OriginBound)
        /\ ~(DLt(ker.w, OriginBound) /\ DGt(ker.w, BoundValue(ker.bound)))
        /\ DLt(ker.w, OriginBound) => ker.r = "-2. / nu"
        /\ DGt(ker.w, BoundValue(ker.bound))
              => ker.r = "exp(-zArgument) * (-2 + 2 * zArgument + nu) / (2 * zArgument * zArgument)"
        /\ ~DLt(ker.w, OriginBound) /\ ~DGt(ker.w, BoundValue(ker.bound))
              => ker.r = "egf_ugamma(nu / 2, zArgument) / pow(zArgument, nu / 2)"

\* crandall_g has returned the value at the origin for an argument that is
\* not zero
C29_Witness ==
    /\ KerReturned("crandall_g")
    /\ ker.r = "-2. / nu" /\ ~IsZero(ker.w)
    /\ ker.bound = "M_PI * 3.15 * 3.15"

-----------------------------------------------------------------------------
(* Termination: the bounds of the loops of the lattice sums and of the     *)
(* series of gamma.c.                                                      *)

\* the loop of egf_pt has added at most PT_TERMS terms, the first one before
\* the loop, and the loop of egf_cf has run at most CF_LEVELS levels
SeriesBounded ==
    /\ gam.pc \in {"loop", "done"} /\ gam.eval = "egf_pt" => gam.i <= PT_TERMS
    /\ gam.pc \in {"loop", "done"} /\ gam.eval = "egf_cf"
          => gam.i - 1 <= CF_LEVELS

\* C30: every call terminates: each lattice sum runs exactly prod(2 c_k + 1)
\* iterations (minus one for the reciprocal sums): the call of the sum
\* returns, and the bound totalSummands of its loop over n is the product of
\* the 2 * cutoffs[k] + 1.
C30_SumsRunProductOfCutoffs ==
    /\ loop.pc # "trapped"
    /\ loop.pc \in {"summed", "overflowed"}
          => [j \in 0 .. 9 |-> IF j <= 7 THEN loop.total[j] ELSE 0]
                = productOfFactors(loop.cutoffs, loop.dim)

=============================================================================
